---- MODULE Spec2Model ----
(***************************************************************************)
(* Kiklet: the recording session (src-tauri/src/audio/mod.rs) driven by    *)
(* the start_recording / stop_recording commands (src-tauri/src/           *)
(* commands.rs).  Three kinds of execution context are modelled: the       *)
(* command callers, one worker thread per session and the platform audio   *)
(* callback of the session's stream.                                       *)
(***************************************************************************)
EXTENDS Integers, Sequences, FiniteSets, TLC

\* ---------------------------------------------------------------- bounds
MaxSessions == 1      \* sessions that Spec starts in one run
NumCallers == 2       \* concurrent command invocations
MaxBufLen == 2        \* longest callback buffer
MaxSamples == 2       \* cap on samples_written
MaxClock == 1         \* latest wall-clock second a session may start in
MaxRestarts == 1      \* further sessions a restart scenario may start

Sessions == 1..(MaxSessions + MaxRestarts)
Callers == 1..NumCallers
Names == 0..MaxClock

\* --------------------------------------------------------------- domains
SampleFormats == {"I16", "U16", "F32", "Other"}
ChannelCounts == {0, 2}
SampleRates == {0, 2}
\* the channel count and rate of the default input configurations the
\* device may report: a degenerate one (no channel, rate 0) and a stereo one
DeviceConfigs ==
    {cfg \in [channels : ChannelCounts, sample_rate : SampleRates] :
        (cfg.channels = 0) <=> (cfg.sample_rate = 0)}

\* AudioError, plus the two results the control path synthesises
InitErrors == {"NoDefaultInputDevice", "DefaultInputConfig", "Io", "Wav",
               "UnsupportedSampleFormat", "BuildStream", "PlayStream"}
ThreadInitFailed == "IoThreadFailedToInitialize"
ThreadPanicked == "IoThreadPanicked"

VARIABLES
    \* ---- AppState and the command callers
    active_recording,  \* AppState.active_recording: 0 = None, s = Some(session s)
    slotLock,          \* holder of the active_recording mutex: 0 = free
    cPc,               \* position of each command invocation
    cSess,             \* session a caller is starting or stopping (0 = none)
    lastRet,           \* the command return this step made (NoRet: none)
    nextSession,       \* sessions spawned so far + 1
    clock,             \* wall clock (seconds) as last read by a start
    tray_recording,    \* is_recording flag the tray menu was last built with
    recordings,        \* AppState.recordings: entries (sessions), newest name first
    index_file,        \* the entries last written by save_index
    \* ---- RecordingSession (the handle)
    filename,          \* stem derived from the clock at start
    stop_tx,           \* the handle's stop sender is alive
    stopQ,             \* stop signals in flight
    stopSent,          \* stop() has sent on this session
    startResult,       \* what RecordingSession::start returned
    stopResult,        \* what RecordingSession::stop returned
    \* ---- worker thread
    wPc,               \* worker position
    wRet,              \* worker closure's return value ("none" while running)
    ready_tx,          \* the worker's ready sender is alive
    readyQ,            \* messages in flight on the ready channel
    deviceHeld,        \* host/device handles are alive
    stream,            \* "none" | "built" | "playing" | "dropped"
    format,            \* supported.sample_format()
    channels_in,       \* supported.channels().max(1)
    sample_rate,       \* supported.sample_rate().0
    samplesRead,       \* `samples` loaded at teardown
    \* ---- state shared with the callback
    writer,            \* "unset" | "Some" | "None" | "freed"
    writerLock,        \* "free" | "cb" | "worker"
    poisoned,          \* the writer mutex is poisoned
    samples_written,   \* AtomicU64
    \* ---- the audio callback
    cbPc,              \* "idle" | "lock" | "check" | "write"
    cbLen,             \* data.len()
    cbIdx,             \* loop index i
    \* ---- filesystem
    files,             \* name -> "absent" | "open" | "final" | "broken"
    fileOwner,         \* name -> session that created the file last (0 = none)
    finalized,         \* times the session's encoder has been finalized
    encoded,           \* samples the session's WavWriter has accepted
    \* ---- what else crosses the program's boundary
    err_log,           \* stream errors err_fn has reported to the debug log
    sample_in,         \* a native sample handed to the normalizer
    sample_out,        \* the i16 the normalizer made of it (<<>>: none yet)
    \* ---- a purge thread between its load and its save
    purgePc,           \* "idle" | "loaded"
    purge_entries,     \* the entries the purge thread has loaded
    \* ---- one call of Storage::purge_old_recordings
    purge_in,          \* its index, its files, now and days (NoPurge: none)
    purge_out,         \* what it returned and left behind (<<>>: none yet)
    \* ---- HotkeyState, the shortcut plugin and the hotkey settings
    hk_current,        \* HotkeyState.current: NoAccel = None, a = Some(a)
    hk_last_error,     \* HotkeyState.last_error is Some
    plugin,            \* accelerators registered with the plugin
    hk_ret,            \* what the register / unregister of this step returned
    sh_pc,             \* set_hotkey: "idle" | "try" | "save"
    sh_args,           \* set_hotkey: code, mods and the candidate that registered
    sh_cands,          \* set_hotkey: candidates not yet tried
    sh_ret,            \* what the set_hotkey of this step returned
    settings,          \* AppState.settings: its hotkey fields
    settings_saved,    \* the hotkey fields in the settings file
    \* ---- push-to-talk tracker
    ptt_once,          \* STATE (the OnceLock) has been set
    ptt_slot,          \* the Option in STATE: NoPtt = None, else the PttState
    ptt_gen,           \* GEN
    ptt_thread,        \* gen -> "none" | "loop" | "gen" | "poll" | "sleep" | "exited"
    ptt_running,       \* gen -> the thread's running flag
    ptt_ret,           \* what the last start / stop returned
    \* ---- HUD
    hud_active,        \* ACTIVE
    hud_gen,           \* GEN
    hud_thread,        \* follow thread -> its position and its gen
    hud_pc,            \* position of each activate / deactivate call
    hud_local          \* the gen an activate call has drawn

cmdVars == <<active_recording, slotLock, cPc, cSess, nextSession, clock,
             tray_recording, recordings, index_file>>
sessVars == <<filename, stop_tx, stopQ, stopSent, startResult, stopResult>>
workVars == <<wPc, wRet, ready_tx, readyQ, deviceHeld, stream, format,
              channels_in, sample_rate, samplesRead>>
sharedVars == <<writer, writerLock, poisoned, samples_written>>
cbVars == <<cbPc, cbLen, cbIdx>>
fsVars == <<files, fileOwner, finalized, encoded>>
ioVars == <<err_log, sample_in, sample_out>>
purgeVars == <<purgePc, purge_entries>>
purgeFnVars == <<purge_in, purge_out>>
hotkeyVars == <<hk_current, hk_last_error, plugin, hk_ret, sh_pc, sh_args, sh_cands, sh_ret,
                settings, settings_saved>>
pttVars == <<ptt_once, ptt_slot, ptt_gen, ptt_thread, ptt_running, ptt_ret>>
hudVars == <<hud_active, hud_gen, hud_thread, hud_pc, hud_local>>
\* everything beside the recording path
sysVars == <<purgeVars, purgeFnVars, hotkeyVars, pttVars, hudVars>>
vars == <<lastRet, cmdVars, sessVars, workVars, sharedVars, cbVars, fsVars, ioVars, sysVars>>

\* caller c returns r from command cmd: "Ok" or the error message's prefix
\* (the AudioError it wraps is startResult / stopResult of the session)
Ret(c, cmd, r) == [caller |-> c, cmd |-> cmd, res |-> r]
NoRet == Ret(0, "none", "none")

\* generations the push-to-talk tracker and the HUD can draw
MaxPttGen == 4
MaxHudGen == 3
PttGens == 1..MaxPttGen
\* a follow thread is spawned with a generation of its own
HudThreads == 1..MaxHudGen

\* a follow thread that was not spawned
NoThread == [pc |-> "none", gen |-> 0]

\* no accelerator: HotkeyState.current is None
NoAccel == [mods |-> 0, key |-> 0]

\* what a call of register or unregister returned
HkRet(op, acc, r) == [op |-> op, acc |-> acc, res |-> r]
NoHkRet == HkRet("none", NoAccel, "none")

\* set_hotkey holds no arguments
NoArgs == [code |-> 0, mods |-> 0, registered |-> NoAccel]

\* the hotkey fields of the settings setup has loaded
LoadedSettings == [accelerator |-> NoAccel, kind |-> "combo", code |-> 0, mods |-> 0]

\* the Option<PttState> in STATE is None
NoPtt == [gen |-> 0, target_vk |-> 0]

\* no call of purge_old_recordings is under study
NoPurge == [index |-> <<>>, now |-> 0, days |-> 0]

\* no sample is at the normalizer; it has produced nothing
NoSample == [fmt |-> "none", v |-> 0]
NoOutput == <<>>

\* a step in which no command returns
Silent == lastRet' = NoRet

InitAll(x, p) ==
    /\ active_recording = 0
    /\ slotLock = 0
    /\ cPc = [c \in Callers |-> "idle"]
    /\ cSess = [c \in Callers |-> 0]
    /\ lastRet = NoRet
    /\ nextSession = 1
    /\ clock = 0
    /\ tray_recording = FALSE
    /\ recordings = <<>>
    /\ index_file = <<>>
    /\ filename = [s \in Sessions |-> 0]
    /\ stop_tx = [s \in Sessions |-> FALSE]
    /\ stopQ = [s \in Sessions |-> 0]
    /\ stopSent = [s \in Sessions |-> FALSE]
    /\ startResult = [s \in Sessions |-> "none"]
    /\ stopResult = [s \in Sessions |-> "none"]
    /\ wPc = [s \in Sessions |-> "unspawned"]
    /\ wRet = [s \in Sessions |-> "none"]
    /\ ready_tx = [s \in Sessions |-> FALSE]
    /\ readyQ = [s \in Sessions |-> <<>>]
    /\ deviceHeld = [s \in Sessions |-> FALSE]
    /\ stream = [s \in Sessions |-> "none"]
    /\ format = [s \in Sessions |-> "I16"]
    /\ channels_in = [s \in Sessions |-> 1]
    /\ sample_rate = [s \in Sessions |-> 0]
    /\ samplesRead = [s \in Sessions |-> 0]
    /\ writer = [s \in Sessions |-> "unset"]
    /\ writerLock = [s \in Sessions |-> "free"]
    /\ poisoned = [s \in Sessions |-> FALSE]
    /\ samples_written = [s \in Sessions |-> 0]
    /\ cbPc = [s \in Sessions |-> "idle"]
    /\ cbLen = [s \in Sessions |-> 0]
    /\ cbIdx = [s \in Sessions |-> 0]
    /\ files = [n \in Names |-> "absent"]
    /\ fileOwner = [n \in Names |-> 0]
    /\ finalized = [s \in Sessions |-> 0]
    /\ encoded = [s \in Sessions |-> 0]
    /\ err_log = 0
    /\ sample_in = x
    /\ sample_out = NoOutput
    /\ purgePc = "idle"
    /\ purge_entries = <<>>
    /\ purge_in = p
    /\ purge_out = <<>>
    /\ hk_current = NoAccel
    /\ hk_last_error = FALSE
    /\ plugin = {}
    /\ hk_ret = NoHkRet
    /\ sh_pc = "idle"
    /\ sh_args = NoArgs
    /\ sh_cands = <<>>
    /\ sh_ret = "none"
    /\ settings = LoadedSettings
    /\ settings_saved = LoadedSettings
    /\ ptt_once = FALSE
    /\ ptt_slot = NoPtt
    /\ ptt_gen = 0
    /\ ptt_thread = [g \in PttGens |-> "none"]
    /\ ptt_running = [g \in PttGens |-> FALSE]
    /\ ptt_ret = "none"
    /\ hud_active = FALSE
    /\ hud_gen = 0
    /\ hud_thread = [t \in HudThreads |-> NoThread]
    /\ hud_pc = [c \in Callers |-> "idle"]
    /\ hud_local = [c \in Callers |-> 0]

\* the state with a native sample at the normalizer
InitState(x) == InitAll(x, NoPurge)

\* the application after setup: no session, nothing at the normalizer
Init == InitState(NoSample)

\* A write through an open handle changes what the file's name leads to
\* only while the name is still there: the data of a file that has been
\* removed is out of reach of every path.
Written(n, state) ==
    IF files[n] = "absent" THEN files ELSE [files EXCEPT ![n] = state]

\* ================================================================ worker
\* `?` and the end of the closure: the value is returned and the closure's
\* locals are dropped.
WorkerReturn(s, v) ==
    /\ wRet' = [wRet EXCEPT ![s] = v]
    /\ wPc' = [wPc EXCEPT ![s] = "drop_locals"]

\* host.default_input_device().ok_or(NoDefaultInputDevice)?
WorkerOpenDevice(s) ==
    /\ wPc[s] = "open_device"
    /\ \/ /\ deviceHeld' = [deviceHeld EXCEPT ![s] = TRUE]
          /\ wPc' = [wPc EXCEPT ![s] = "query_config"]
          /\ UNCHANGED wRet
       \/ /\ WorkerReturn(s, "NoDefaultInputDevice")
          /\ UNCHANGED deviceHeld
    /\ UNCHANGED <<ready_tx, readyQ, stream, format, channels_in, sample_rate, samplesRead>>
    /\ UNCHANGED <<cmdVars, sessVars, sharedVars, cbVars, fsVars, ioVars, sysVars>>

\* channels_in = supported.channels().max(1)
ChannelsIn(ch) == IF ch < 1 THEN 1 ELSE ch

\* device.default_input_config()?; sample_rate, channels_in
WorkerQueryConfig(s) ==
    /\ wPc[s] = "query_config"
    /\ \/ \E f \in SampleFormats, cfg \in DeviceConfigs :
            /\ format' = [format EXCEPT ![s] = f]
            /\ channels_in' = [channels_in EXCEPT ![s] = ChannelsIn(cfg.channels)]
            /\ sample_rate' = [sample_rate EXCEPT ![s] = cfg.sample_rate]
            /\ wPc' = [wPc EXCEPT ![s] = "create_file"]
            /\ UNCHANGED wRet
       \/ /\ WorkerReturn(s, "DefaultInputConfig")
          /\ UNCHANGED <<format, channels_in, sample_rate>>
    /\ UNCHANGED <<ready_tx, readyQ, deviceHeld, stream, samplesRead>>
    /\ UNCHANGED <<cmdVars, sessVars, sharedVars, cbVars, fsVars, ioVars, sysVars>>

\* File::create(&path)?  (creates or truncates)
WorkerCreateFile(s) ==
    /\ wPc[s] = "create_file"
    /\ \/ /\ files' = [files EXCEPT ![filename[s]] = "open"]
          /\ fileOwner' = [fileOwner EXCEPT ![filename[s]] = s]
          /\ UNCHANGED <<finalized, encoded, ioVars, sysVars>>
          /\ wPc' = [wPc EXCEPT ![s] = "wav_new"]
          /\ UNCHANGED wRet
       \/ /\ WorkerReturn(s, "Io")
          /\ UNCHANGED <<fsVars, ioVars, sysVars>>
    /\ UNCHANGED <<ready_tx, readyQ, deviceHeld, stream, format, channels_in, sample_rate,
                   samplesRead>>
    /\ UNCHANGED <<cmdVars, sessVars, sharedVars, cbVars>>

\* hound::WavWriter::new(..)? (on failure the file is closed with no valid
\* header); Arc::new(Mutex::new(Some(writer)));
\* samples_written = AtomicU64::new(0)
WorkerWavNew(s) ==
    /\ wPc[s] = "wav_new"
    /\ \/ /\ writer' = [writer EXCEPT ![s] = "Some"]
          /\ wPc' = [wPc EXCEPT ![s] = "build_stream"]
          /\ UNCHANGED wRet
          /\ UNCHANGED files
       \/ /\ WorkerReturn(s, "Wav")
          /\ files' = Written(filename[s], "broken")
          /\ UNCHANGED writer
    /\ UNCHANGED <<ready_tx, readyQ, deviceHeld, stream, format, channels_in, sample_rate,
                   samplesRead>>
    /\ UNCHANGED <<writerLock, poisoned, samples_written, fileOwner, ioVars, sysVars, finalized, encoded>>
    /\ UNCHANGED <<cmdVars, sessVars, cbVars>>

\* match supported.sample_format() { I16 | U16 | F32 => build_input_stream(..)?,
\*                                   _ => return Err(UnsupportedSampleFormat) }
WorkerBuildStream(s) ==
    /\ wPc[s] = "build_stream"
    /\ IF format[s] \notin {"I16", "U16", "F32"}
       THEN /\ WorkerReturn(s, "UnsupportedSampleFormat")
            /\ UNCHANGED stream
       ELSE \/ /\ stream' = [stream EXCEPT ![s] = "built"]
               /\ wPc' = [wPc EXCEPT ![s] = "play"]
               /\ UNCHANGED wRet
            \/ /\ WorkerReturn(s, "BuildStream")
               /\ UNCHANGED stream
    /\ UNCHANGED <<ready_tx, readyQ, deviceHeld, format, channels_in, sample_rate, samplesRead>>
    /\ UNCHANGED <<cmdVars, sessVars, sharedVars, cbVars, fsVars, ioVars, sysVars>>

\* the ready signal is reached without the stream having been started
WorkerPlaySkipped(s) ==
    /\ wPc[s] = "play"
    /\ wPc' = [wPc EXCEPT ![s] = "send_ready"]
    /\ UNCHANGED <<wRet, ready_tx, readyQ, deviceHeld, stream, format,
                   channels_in, sample_rate, samplesRead>>
    /\ UNCHANGED <<cmdVars, sessVars, sharedVars, cbVars, fsVars, ioVars, sysVars>>

\* stream.play()?
WorkerPlay(s) ==
    /\ wPc[s] = "play"
    /\ \/ /\ stream' = [stream EXCEPT ![s] = "playing"]
          /\ wPc' = [wPc EXCEPT ![s] = "send_ready"]
          /\ UNCHANGED wRet
       \/ /\ WorkerReturn(s, "PlayStream")
          /\ UNCHANGED stream
    /\ UNCHANGED <<ready_tx, readyQ, deviceHeld, format, channels_in, sample_rate, samplesRead>>
    /\ UNCHANGED <<cmdVars, sessVars, sharedVars, cbVars, fsVars, ioVars, sysVars>>

\* let _ = ready_tx.send(Ok(()))
WorkerSendReady(s) ==
    /\ wPc[s] = "send_ready"
    /\ readyQ' = [readyQ EXCEPT ![s] = Append(@, "Ok")]
    /\ wPc' = [wPc EXCEPT ![s] = "wait_stop"]
    /\ UNCHANGED <<wRet, ready_tx, deviceHeld, stream, format, channels_in, sample_rate,
                   samplesRead>>
    /\ UNCHANGED <<cmdVars, sessVars, sharedVars, cbVars, fsVars, ioVars, sysVars>>


\* a receive that does not block
StopRecvImmediate(s) == TRUE

\* a receive that returns only for a signal, not when the sender is gone
StopRecvNeedsSignal(s) == stopQ[s] > 0

\* stop_rx.recv() returns: a signal is queued, or every sender is gone
StopRecvReturns(s) == stopQ[s] > 0 \/ ~stop_tx[s]

\* let _ = stop_rx.recv()   -- blocks until stop is requested
WorkerWaitStop(s) ==
    /\ wPc[s] = "wait_stop"
    /\ StopRecvReturns(s)
    /\ stopQ' = [stopQ EXCEPT ![s] = IF @ > 0 THEN @ - 1 ELSE @]
    /\ wPc' = [wPc EXCEPT ![s] = "drop_stream"]
    /\ UNCHANGED <<filename, stop_tx, stopSent, startResult, stopResult>>
    /\ UNCHANGED <<wRet, ready_tx, readyQ, deviceHeld, stream, format,
                   channels_in, sample_rate, samplesRead>>
    /\ UNCHANGED <<cmdVars, sharedVars, cbVars, fsVars, ioVars, sysVars>>

\* the stream is left running when the worker goes on to finalize
WorkerDropStreamLate(s) ==
    /\ wPc[s] = "drop_stream"
    /\ wPc' = [wPc EXCEPT ![s] = "load_samples"]
    /\ UNCHANGED <<wRet, ready_tx, readyQ, deviceHeld, stream, format,
                   channels_in, sample_rate, samplesRead>>
    /\ UNCHANGED <<cmdVars, sessVars, sharedVars, cbVars, fsVars, ioVars, sysVars>>

\* drop(stream): no callback is invoked any more; an invocation already
\* under way may still run to its end
WorkerDropStream(s) ==
    /\ wPc[s] = "drop_stream"
    /\ stream' = [stream EXCEPT ![s] = "dropped"]
    /\ wPc' = [wPc EXCEPT ![s] = "load_samples"]
    /\ UNCHANGED <<wRet, ready_tx, readyQ, deviceHeld, format, channels_in, sample_rate,
                   samplesRead>>
    /\ UNCHANGED <<cmdVars, sessVars, sharedVars, cbVars, fsVars, ioVars, sysVars>>

\* let samples = samples_written.load(Relaxed)
WorkerLoadSamples(s) ==
    /\ wPc[s] = "load_samples"
    /\ samplesRead' = [samplesRead EXCEPT ![s] = samples_written[s]]
    /\ wPc' = [wPc EXCEPT ![s] = "lock_writer"]
    /\ UNCHANGED <<wRet, ready_tx, readyQ, deviceHeld, stream, format,
                   channels_in, sample_rate>>
    /\ UNCHANGED <<cmdVars, sessVars, sharedVars, cbVars, fsVars, ioVars, sysVars>>

\* let duration_sec = if sample_rate == 0 { 0.0 }
\*                    else { samples as f64 / sample_rate as f64 }
\* (in milliseconds, so that the quotient is an integer)
DurationSec(samples, rate) ==
    IF rate = 0 THEN 0 ELSE (samples * 1000) \div rate

\* the duration_sec of the FinishedRecording the worker returns: that of
\* the samples it loaded
FinishedDuration(s) == DurationSec(samplesRead[s], sample_rate[s])

\* let mut guard = writer.lock().map_err(|_| io "wav writer lock poisoned")?
WorkerLockWriter(s) ==
    /\ wPc[s] = "lock_writer"
    /\ writerLock[s] = "free"
    /\ IF poisoned[s]
       THEN /\ WorkerReturn(s, "Io")
            /\ UNCHANGED writerLock
       ELSE /\ writerLock' = [writerLock EXCEPT ![s] = "worker"]
            /\ wPc' = [wPc EXCEPT ![s] = "take_writer"]
            /\ UNCHANGED wRet
    /\ UNCHANGED <<ready_tx, readyQ, deviceHeld, stream, format, channels_in, sample_rate,
                   samplesRead>>
    /\ UNCHANGED <<writer, poisoned, samples_written>>
    /\ UNCHANGED <<cmdVars, sessVars, cbVars, fsVars, ioVars, sysVars>>

\* the encoder is borrowed for finalization and left in the slot
WorkerBorrowWriter(s) ==
    /\ wPc[s] = "take_writer"
    /\ wPc' = [wPc EXCEPT ![s] = IF writer[s] = "Some" THEN "finalize" ELSE "metadata"]
    /\ UNCHANGED <<wRet, ready_tx, readyQ, deviceHeld, stream, format,
                   channels_in, sample_rate, samplesRead>>
    /\ UNCHANGED <<cmdVars, sessVars, sharedVars, cbVars, fsVars, ioVars, sysVars>>

\* if let Some(w) = guard.take() { .. }
WorkerTakeWriter(s) ==
    /\ wPc[s] = "take_writer"
    /\ IF writer[s] = "Some"
       THEN /\ writer' = [writer EXCEPT ![s] = "None"]
            /\ wPc' = [wPc EXCEPT ![s] = "finalize"]
       ELSE /\ wPc' = [wPc EXCEPT ![s] = "metadata"]
            /\ UNCHANGED writer
    /\ UNCHANGED <<wRet, ready_tx, readyQ, deviceHeld, stream, format,
                   channels_in, sample_rate, samplesRead>>
    /\ UNCHANGED <<writerLock, poisoned, samples_written>>
    /\ UNCHANGED <<cmdVars, sessVars, cbVars, fsVars, ioVars, sysVars>>

\* finalize's result is dropped and the worker goes on to read the size
WorkerFinalizeUnchecked(s) ==
    /\ wPc[s] = "finalize"
    /\ \E outcome \in {"final", "broken"} :
          files' = Written(filename[s], outcome)
    /\ wPc' = [wPc EXCEPT ![s] = "metadata"]
    /\ finalized' = [finalized EXCEPT ![s] = @ + 1]
    /\ UNCHANGED <<fileOwner, ioVars, sysVars, encoded>>
    /\ UNCHANGED <<wRet, ready_tx, readyQ, deviceHeld, stream, format, channels_in,
                   sample_rate, samplesRead>>
    /\ UNCHANGED <<cmdVars, sessVars, sharedVars, cbVars>>

\* w.finalize()?   -- consumes the encoder; the file is closed either way
WorkerFinalize(s) ==
    /\ wPc[s] = "finalize"
    /\ \/ /\ files' = Written(filename[s], "final")
          /\ wPc' = [wPc EXCEPT ![s] = "metadata"]
          /\ UNCHANGED wRet
       \/ /\ files' = Written(filename[s], "broken")
          /\ WorkerReturn(s, "Wav")
    /\ finalized' = [finalized EXCEPT ![s] = @ + 1]
    /\ UNCHANGED <<fileOwner, ioVars, sysVars, encoded>>
    /\ UNCHANGED <<ready_tx, readyQ, deviceHeld, stream, format, channels_in, sample_rate,
                   samplesRead>>
    /\ UNCHANGED <<cmdVars, sessVars, sharedVars, cbVars>>

\* let size_bytes = std::fs::metadata(&path)?.len(); Ok(FinishedRecording{..})
WorkerMetadata(s) ==
    /\ wPc[s] = "metadata"
    /\ \/ /\ files[filename[s]] # "absent"
          /\ WorkerReturn(s, "Ok")
       \/ WorkerReturn(s, "Io")
    /\ UNCHANGED <<ready_tx, readyQ, deviceHeld, stream, format, channels_in, sample_rate,
                   samplesRead>>
    /\ UNCHANGED <<cmdVars, sessVars, sharedVars, cbVars, fsVars, ioVars, sysVars>>

\* a panic inside one of the cpal / hound calls the worker makes
PanicPoints == {"open_device", "query_config", "wav_new", "build_stream",
                "play", "drop_stream", "finalize"}

\* unwinding with the guard alive poisons the writer mutex
WorkerPanic(s) ==
    /\ wPc[s] \in PanicPoints
    /\ WorkerReturn(s, "panic")
    /\ poisoned' = [poisoned EXCEPT ![s] = @ \/ writerLock[s] = "worker"]
    /\ files' = IF wPc[s] \in {"wav_new", "finalize"}
                THEN Written(filename[s], "broken")
                ELSE files
    /\ UNCHANGED <<ready_tx, readyQ, deviceHeld, stream, format, channels_in, sample_rate,
                   samplesRead>>
    /\ finalized' = [finalized EXCEPT ![s] = IF wPc[s] = "finalize" THEN @ + 1 ELSE @]
    /\ UNCHANGED <<writer, writerLock, samples_written, fileOwner, ioVars, sysVars, encoded>>
    /\ UNCHANGED <<cmdVars, sessVars, cbVars>>

\* The last Arc<Mutex<Option<WavWriter>>> goes away: a writer that is still
\* Some is dropped, and hound's Drop closes the file.
FreeWriter(s, last) ==
    IF last /\ writer[s] = "Some"
    THEN /\ writer' = [writer EXCEPT ![s] = "freed"]
         /\ files' = Written(filename[s], "final")
         /\ finalized' = [finalized EXCEPT ![s] = @ + 1]
    ELSE UNCHANGED <<writer, files, finalized>>

\* the captured ready_tx is released while the locals are still alive
WorkerDropEnvFirst(s) ==
    /\ wPc[s] = "drop_locals"
    /\ ready_tx' = [ready_tx EXCEPT ![s] = FALSE]
    /\ wPc' = [wPc EXCEPT ![s] = "drop_env"]
    /\ UNCHANGED <<wRet, readyQ, deviceHeld, stream, format, channels_in, sample_rate,
                   samplesRead>>
    /\ UNCHANGED <<cmdVars, sessVars, sharedVars, cbVars, fsVars, ioVars, sysVars>>

\* The closure's locals go out of scope (return, `?` or unwinding): guard,
\* stream, the worker's writer Arc, device, host.
WorkerDropLocals(s) ==
    /\ wPc[s] = "drop_locals"
    /\ writerLock' = [writerLock EXCEPT ![s] = IF @ = "worker" THEN "free" ELSE @]
    /\ stream' = [stream EXCEPT ![s] = IF @ \in {"built", "playing"} THEN "dropped" ELSE @]
    /\ deviceHeld' = [deviceHeld EXCEPT ![s] = FALSE]
    /\ FreeWriter(s, cbPc[s] = "idle")
    /\ wPc' = [wPc EXCEPT ![s] = "drop_env"]
    /\ UNCHANGED <<wRet, ready_tx, readyQ, format, channels_in, sample_rate, samplesRead>>
    /\ UNCHANGED <<poisoned, samples_written, fileOwner, ioVars, sysVars, encoded>>
    /\ UNCHANGED <<cmdVars, sessVars, cbVars>>

\* The closure's captured environment is dropped after its locals: ready_tx
\* and stop_rx disconnect, and the thread's result becomes joinable.
WorkerDropEnv(s) ==
    /\ wPc[s] = "drop_env"
    /\ ready_tx' = [ready_tx EXCEPT ![s] = FALSE]
    /\ wPc' = [wPc EXCEPT ![s] = "exited"]
    /\ UNCHANGED <<wRet, readyQ, deviceHeld, stream, format, channels_in, sample_rate,
                   samplesRead>>
    /\ UNCHANGED <<cmdVars, sessVars, sharedVars, cbVars, fsVars, ioVars, sysVars>>


\* ============================================================== callback
\* the platform invokes the data callback of a playing stream
CbInvoke(s) ==
    /\ stream[s] = "playing"
    /\ cbPc[s] = "idle"
    /\ \E L \in 0..MaxBufLen : cbLen' = [cbLen EXCEPT ![s] = L]
    /\ cbPc' = [cbPc EXCEPT ![s] = "lock"]
    /\ UNCHANGED cbIdx
    /\ UNCHANGED <<cmdVars, sessVars, workVars, sharedVars, fsVars, ioVars, sysVars>>

\* Mutex::lock() can be acquired
CanLock(s) == writerLock[s] = "free"

\* let mut guard = match writer_cb.lock() { Ok(g) => g, Err(_) => return };
CbLock(s) ==
    /\ cbPc[s] = "lock"
    /\ CanLock(s)
    /\ IF poisoned[s]
       THEN /\ cbPc' = [cbPc EXCEPT ![s] = "idle"]
            /\ cbLen' = [cbLen EXCEPT ![s] = 0]
            /\ UNCHANGED writerLock
       ELSE /\ cbPc' = [cbPc EXCEPT ![s] = "check"]
            /\ writerLock' = [writerLock EXCEPT ![s] = "cb"]
            /\ UNCHANGED cbLen
    /\ UNCHANGED <<cbIdx, writer, poisoned, samples_written>>
    /\ UNCHANGED <<cmdVars, sessVars, workVars, fsVars, ioVars, sysVars>>

WriterOpenUnchecked(s) == TRUE

\* guard.as_mut() is Some(w)
WriterOpen(s) == writer[s] = "Some"

\* let Some(w) = guard.as_mut() else { return };
CbCheck(s) ==
    /\ cbPc[s] = "check"
    /\ IF WriterOpen(s)
       THEN /\ cbPc' = [cbPc EXCEPT ![s] = "write"]
            /\ cbIdx' = [cbIdx EXCEPT ![s] = 0]
            /\ UNCHANGED <<writerLock, cbLen>>
       ELSE /\ cbPc' = [cbPc EXCEPT ![s] = "idle"]
            /\ writerLock' = [writerLock EXCEPT ![s] = "free"]
            /\ cbLen' = [cbLen EXCEPT ![s] = 0]
            /\ UNCHANGED cbIdx
    /\ UNCHANGED <<writer, poisoned, samples_written>>
    /\ UNCHANGED <<cmdVars, sessVars, workVars, fsVars, ioVars, sysVars>>

\* the counter is advanced for every write attempted, failed ones too
CbWriteCountsAttempts(s) ==
    /\ cbPc[s] = "write"
    /\ cbIdx[s] < cbLen[s]
    /\ samples_written' = [samples_written EXCEPT ![s] =
                              IF @ < MaxSamples THEN @ + 1 ELSE @]
    /\ \/ /\ samples_written[s] < MaxSamples
          /\ encoded' = [encoded EXCEPT ![s] = @ + 1]
       \/ UNCHANGED encoded
    /\ cbIdx' = [cbIdx EXCEPT ![s] = @ + channels_in[s]]
    /\ UNCHANGED <<cbPc, cbLen, writer, writerLock, poisoned, files, fileOwner, ioVars, sysVars,
                   finalized>>
    /\ UNCHANGED <<cmdVars, sessVars, workVars>>

\* every sample of the buffer is written, whatever the channel count
CbWriteEveryChannel(s) ==
    /\ cbPc[s] = "write"
    /\ cbIdx[s] < cbLen[s]
    /\ \/ /\ samples_written[s] < MaxSamples
          /\ samples_written' = [samples_written EXCEPT ![s] = @ + 1]
          /\ encoded' = [encoded EXCEPT ![s] = @ + 1]
       \/ UNCHANGED <<samples_written, encoded>>
    /\ cbIdx' = [cbIdx EXCEPT ![s] = @ + 1]
    /\ UNCHANGED <<cbPc, cbLen, writer, writerLock, poisoned, files, fileOwner, ioVars, sysVars, finalized>>
    /\ UNCHANGED <<cmdVars, sessVars, workVars>>

\* one iteration of  for i in (0..data.len()).step_by(channels_in) {
\*     if let Ok(()) = w.write_sample(..) { samples_written_cb.fetch_add(1) } }
CbWrite(s) ==
    /\ cbPc[s] = "write"
    /\ cbIdx[s] < cbLen[s]
    /\ \/ /\ samples_written[s] < MaxSamples
          /\ samples_written' = [samples_written EXCEPT ![s] = @ + 1]
          /\ encoded' = [encoded EXCEPT ![s] = @ + 1]
       \/ UNCHANGED <<samples_written, encoded>>
    /\ cbIdx' = [cbIdx EXCEPT ![s] = @ + channels_in[s]]
    /\ UNCHANGED <<cbPc, cbLen, writer, writerLock, poisoned, files, fileOwner, ioVars, sysVars, finalized>>
    /\ UNCHANGED <<cmdVars, sessVars, workVars>>

\* the callback's stream and the worker's locals are both gone: the
\* invocation that is still running holds the last reference to the writer
CbHoldsLastRef(s) == stream[s] = "dropped" /\ wPc[s] \in {"drop_env", "exited"}

\* the loop ends; the guard is dropped and the callback returns (its
\* locals are gone)
CbReturn(s) ==
    /\ cbPc[s] = "write"
    /\ cbIdx[s] >= cbLen[s]
    /\ cbPc' = [cbPc EXCEPT ![s] = "idle"]
    /\ writerLock' = [writerLock EXCEPT ![s] = "free"]
    /\ FreeWriter(s, CbHoldsLastRef(s))
    /\ cbLen' = [cbLen EXCEPT ![s] = 0]
    /\ cbIdx' = [cbIdx EXCEPT ![s] = 0]
    /\ UNCHANGED <<poisoned, samples_written, fileOwner, ioVars, sysVars, encoded>>
    /\ UNCHANGED <<cmdVars, sessVars, workVars>>

\* stream errors the model lets the platform report
MaxStreamErrors == 1

\* an error notification that ends the stream
StreamErrorFatal(s) ==
    /\ stream[s] \in {"built", "playing"}
    /\ err_log < MaxStreamErrors
    /\ err_log' = err_log + 1
    /\ stream' = [stream EXCEPT ![s] = "dropped"]
    /\ UNCHANGED <<sample_in, sample_out, sysVars>>
    /\ UNCHANGED <<wPc, wRet, ready_tx, readyQ, deviceHeld, format, channels_in,
                   sample_rate, samplesRead>>
    /\ UNCHANGED <<cmdVars, sessVars, sharedVars, cbVars, fsVars>>

\* let err_fn = move |err| { debug_log(&format!("stream error: {err}")) };
\* the platform calls it while the stream exists
StreamError(s) ==
    /\ stream[s] \in {"built", "playing"}
    /\ err_log < MaxStreamErrors
    /\ err_log' = err_log + 1
    /\ UNCHANGED <<sample_in, sample_out, sysVars>>
    /\ UNCHANGED <<cmdVars, sessVars, workVars, sharedVars, cbVars, fsVars>>

\* ======================================================= start_recording
\* a start_recording command is invoked
StartCall(c) ==
    /\ cPc[c] = "idle"
    /\ cPc' = [cPc EXCEPT ![c] = "start_lock"]
    /\ Silent
    /\ UNCHANGED <<active_recording, slotLock, cSess, nextSession, clock,
                   tray_recording, recordings, index_file>>
    /\ UNCHANGED <<sessVars, workVars, sharedVars, cbVars, fsVars, ioVars, sysVars>>

\* a lock that is not waited for
SlotLockIgnored == TRUE

\* state.active_recording.lock() can be acquired
SlotLockFree == slotLock = 0

\* guard.is_some() => return Err("already recording")
StartAlready(c) ==
    /\ cPc[c] = "start_lock"
    /\ SlotLockFree
    /\ active_recording # 0
    /\ cPc' = [cPc EXCEPT ![c] = "idle"]
    /\ lastRet' = Ret(c, "start", "already recording")
    /\ UNCHANGED <<active_recording, slotLock, cSess, nextSession, clock,
                   tray_recording, recordings, index_file>>
    /\ UNCHANGED <<sessVars, workVars, sharedVars, cbVars, fsVars, ioVars, sysVars>>

\* the directory is created by the worker: its failure is met after the spawn
StartDirFailLate(c) ==
    /\ cPc[c] = "start_lock"
    /\ SlotLockFree
    /\ active_recording = 0
    /\ nextSession <= MaxSessions
    /\ wPc' = [wPc EXCEPT ![nextSession] = "exited"]
    /\ nextSession' = nextSession + 1
    /\ cPc' = [cPc EXCEPT ![c] = "idle"]
    /\ lastRet' = Ret(c, "start", "failed to start recording")
    /\ UNCHANGED <<active_recording, slotLock, cSess, clock,
                   tray_recording, recordings, index_file>>
    /\ UNCHANGED <<wRet, ready_tx, readyQ, deviceHeld, stream, format, channels_in,
                   sample_rate, samplesRead>>
    /\ UNCHANGED <<sessVars, sharedVars, cbVars, fsVars, ioVars, sysVars>>

\* recordings_dir(&app) or std::fs::create_dir_all(recordings_dir) fails:
\* the error is returned before any thread is spawned
StartDirFail(c) ==
    /\ cPc[c] = "start_lock"
    /\ SlotLockFree
    /\ active_recording = 0
    /\ cPc' = [cPc EXCEPT ![c] = "idle"]
    /\ \E k \in {"failed to get recordings_dir", "failed to start recording"} :
          lastRet' = Ret(c, "start", k)
    /\ UNCHANGED <<active_recording, slotLock, cSess, nextSession, clock,
                   tray_recording, recordings, index_file>>
    /\ UNCHANGED <<sessVars, workVars, sharedVars, cbVars, fsVars, ioVars, sysVars>>

\* the guard is kept (it is released in StartRecv); RecordingSession::start
\* up to std::thread::spawn: filename from the clock, the two channels, the
\* worker
SpawnSession(c, cap) ==
    /\ cPc[c] = "start_lock"
    /\ SlotLockFree
    /\ active_recording = 0
    /\ nextSession <= cap
    /\ \E now \in clock..MaxClock :
          /\ clock' = now
          /\ filename' = [filename EXCEPT ![nextSession] = now]
    /\ LET s == nextSession IN
       /\ slotLock' = c
       /\ cSess' = [cSess EXCEPT ![c] = s]
       /\ stop_tx' = [stop_tx EXCEPT ![s] = TRUE]
       /\ ready_tx' = [ready_tx EXCEPT ![s] = TRUE]
       /\ startResult' = [startResult EXCEPT ![s] = "pending"]
       /\ wPc' = [wPc EXCEPT ![s] = "open_device"]
    /\ nextSession' = nextSession + 1
    /\ cPc' = [cPc EXCEPT ![c] = "start_recv"]
    /\ Silent
    /\ UNCHANGED <<active_recording, tray_recording, recordings, index_file>>
    /\ UNCHANGED <<stopQ, stopSent, stopResult>>
    /\ UNCHANGED <<wRet, readyQ, deviceHeld, stream, format, channels_in, sample_rate,
                   samplesRead>>
    /\ UNCHANGED <<sharedVars, cbVars, fsVars, ioVars, sysVars>>

\* a start that gets as far as spawning its worker
StartSpawn(c) == SpawnSession(c, MaxSessions)

\* a receive that does not wait (try_recv)
ReadyRecvImmediate(s) == TRUE

\* a receive that does not notice the disconnection
ReadyRecvNeedsMessage(s) == readyQ[s] # <<>>

\* ready_rx.recv() returns: a message is queued, or the sender is gone
ReadyRecvReturns(s) == readyQ[s] # <<>> \/ ~ready_tx[s]

\* match ready_rx.recv() { Ok(Ok(())) => Ok(Self{..}), Ok(Err(e)) => Err(e),
\*     Err(_) => Err(Io("recording thread failed to initialize")) }
HandshakeResult(s) ==
    IF readyQ[s] # <<>> THEN Head(readyQ[s]) ELSE ThreadInitFailed

\* the handshake resolves; on Ok the session goes into the slot
\* (*guard = Some(active)), on Err the command returns; the guard is
\* released either way
StartRecv(c) ==
    /\ cPc[c] = "start_recv"
    /\ LET s == cSess[c]
           r == HandshakeResult(s) IN
       /\ ReadyRecvReturns(s)
       /\ startResult' = [startResult EXCEPT ![s] = r]
       /\ readyQ' = [readyQ EXCEPT ![s] = IF @ # <<>> THEN Tail(@) ELSE @]
       /\ IF r = "Ok"
          THEN /\ active_recording' = s
               /\ cPc' = [cPc EXCEPT ![c] = "start_tray"]
               /\ Silent
               /\ UNCHANGED <<stop_tx, cSess>>
          ELSE /\ cPc' = [cPc EXCEPT ![c] = "idle"]
               /\ lastRet' = Ret(c, "start", "failed to start recording")
               /\ cSess' = [cSess EXCEPT ![c] = 0]
               /\ stop_tx' = [stop_tx EXCEPT ![s] = FALSE]
               /\ UNCHANGED active_recording
    /\ slotLock' = IF slotLock = c THEN 0 ELSE slotLock
    /\ UNCHANGED <<nextSession, clock, tray_recording, recordings, index_file>>
    /\ UNCHANGED <<filename, stopQ, stopSent, stopResult>>
    /\ UNCHANGED <<wPc, wRet, ready_tx, deviceHeld, stream, format, channels_in, sample_rate,
                   samplesRead>>
    /\ UNCHANGED <<sharedVars, cbVars, fsVars, ioVars, sysVars>>

\* set_tray_recording_state(&app, true); emit_recording_state; Ok(())
StartTray(c) ==
    /\ cPc[c] = "start_tray"
    /\ tray_recording' = TRUE
    /\ cPc' = [cPc EXCEPT ![c] = "idle"]
    /\ lastRet' = Ret(c, "start", "Ok")
    /\ cSess' = [cSess EXCEPT ![c] = 0]
    /\ UNCHANGED <<active_recording, slotLock, nextSession, clock, recordings,
                   index_file>>
    /\ UNCHANGED <<sessVars, workVars, sharedVars, cbVars, fsVars, ioVars, sysVars>>

\* ======================================================== stop_recording
\* a stop_recording command is invoked
StopCall(c) ==
    /\ cPc[c] = "idle"
    /\ cPc' = [cPc EXCEPT ![c] = "stop_lock"]
    /\ Silent
    /\ UNCHANGED <<active_recording, slotLock, cSess, nextSession, clock,
                   tray_recording, recordings, index_file>>
    /\ UNCHANGED <<sessVars, workVars, sharedVars, cbVars, fsVars, ioVars, sysVars>>

\* a stop that reads the slot without emptying it
StopTakeKeepsSlot(c) ==
    /\ cPc[c] = "stop_lock"
    /\ SlotLockFree
    /\ IF active_recording = 0
       THEN /\ cPc' = [cPc EXCEPT ![c] = "idle"]
            /\ lastRet' = Ret(c, "stop", "not recording")
            /\ UNCHANGED cSess
       ELSE /\ cPc' = [cPc EXCEPT ![c] = "stop_send"]
            /\ cSess' = [cSess EXCEPT ![c] = active_recording]
            /\ Silent
    /\ UNCHANGED <<active_recording, slotLock, nextSession, clock, tray_recording,
                   recordings, index_file>>
    /\ UNCHANGED <<sessVars, workVars, sharedVars, cbVars, fsVars, ioVars, sysVars>>

\* guard.take().ok_or("not recording")?   (the guard is released at once)
StopTake(c) ==
    /\ cPc[c] = "stop_lock"
    /\ SlotLockFree
    /\ IF active_recording = 0
       THEN /\ cPc' = [cPc EXCEPT ![c] = "idle"]
            /\ lastRet' = Ret(c, "stop", "not recording")
            /\ UNCHANGED <<cSess, active_recording>>
       ELSE /\ cPc' = [cPc EXCEPT ![c] = "stop_send"]
            /\ cSess' = [cSess EXCEPT ![c] = active_recording]
            /\ active_recording' = 0
            /\ Silent
    /\ UNCHANGED <<slotLock, nextSession, clock, tray_recording, recordings,
                   index_file>>
    /\ UNCHANGED <<sessVars, workVars, sharedVars, cbVars, fsVars, ioVars, sysVars>>

\* stop() that joins without signalling
StopSignalLost(s) ==
    /\ stopSent' = [stopSent EXCEPT ![s] = TRUE]
    /\ UNCHANGED stopQ

\* let _ = self.stop_tx.send(())   (Err, ignored, when stop_rx is gone)
StopSignal(s) ==
    /\ stopQ' = [stopQ EXCEPT ![s] = IF wPc[s] = "exited" THEN @ ELSE @ + 1]
    /\ stopSent' = [stopSent EXCEPT ![s] = TRUE]

\* RecordingSession::stop, first half
StopSend(c) ==
    /\ cPc[c] = "stop_send"
    /\ StopSignal(cSess[c])
    /\ cPc' = [cPc EXCEPT ![c] = "stop_join"]
    /\ Silent
    /\ UNCHANGED <<active_recording, slotLock, cSess, nextSession, clock,
                   tray_recording, recordings, index_file>>
    /\ UNCHANGED <<filename, stop_tx, startResult, stopResult>>
    /\ UNCHANGED <<workVars, sharedVars, cbVars, fsVars, ioVars, sysVars>>

\* the join hands the worker's panic on as it is
JoinResultUnmapped(s) == wRet[s]

\* join.join().map_err(|_| Io("recording thread panicked"))?
JoinResult(s) == IF wRet[s] = "panic" THEN ThreadPanicked ELSE wRet[s]

\* RecordingSession::stop, second half: the join returns once the worker
\* has exited; self (and its stop_tx) is dropped on return
StopJoin(c) ==
    /\ cPc[c] = "stop_join"
    /\ LET s == cSess[c] IN
       /\ wPc[s] = "exited"
       /\ stopResult' = [stopResult EXCEPT ![s] = JoinResult(s)]
       /\ stop_tx' = [stop_tx EXCEPT ![s] = FALSE]
       /\ IF JoinResult(s) = "Ok"
          THEN /\ cPc' = [cPc EXCEPT ![c] = "stop_finish"]
               /\ Silent
               /\ UNCHANGED cSess
          ELSE /\ cPc' = [cPc EXCEPT ![c] = "idle"]
               /\ lastRet' = Ret(c, "stop", "failed to stop")
               /\ cSess' = [cSess EXCEPT ![c] = 0]
    /\ UNCHANGED <<active_recording, slotLock, nextSession, clock,
                   tray_recording, recordings, index_file>>
    /\ UNCHANGED <<filename, stopQ, stopSent, startResult>>
    /\ UNCHANGED <<workVars, sharedVars, cbVars, fsVars, ioVars, sysVars>>

\* recs.sort_by(|a, b| b.filename.cmp(&a.filename)): a stable sort, newest
\* name first; an entry is the session it came from
InsertDesc(sorted, e) ==
    SelectSeq(sorted, LAMBDA x : filename[x] >= filename[e]) \o <<e>>
        \o SelectSeq(sorted, LAMBDA x : filename[x] < filename[e])

RECURSIVE SortDesc(_)
SortDesc(recs) ==
    IF recs = <<>> THEN <<>>
    ELSE InsertDesc(SortDesc(SubSeq(recs, 1, Len(recs) - 1)), recs[Len(recs)])

\* no index file is on disk
NoIndex == <<0>>

\* the FinishedRecording becomes an entry: recs.push(entry); recs.sort_by(..);
\* save_index(&recs)?; set_tray_recording_state(&app, false); emit;
\* Ok(to_item(..)).  A failed save_index returns early: the entry stays in
\* memory, the tray is left alone, and the index file is the old one or
\* (removed, then the rename failed) gone.
StopFinish(c) ==
    /\ cPc[c] = "stop_finish"
    /\ recordings' = SortDesc(Append(recordings, cSess[c]))
    /\ \/ /\ index_file' = recordings'
          /\ tray_recording' = FALSE
          /\ lastRet' = Ret(c, "stop", "Ok")
       \/ /\ index_file' \in {index_file, NoIndex}
          /\ lastRet' = Ret(c, "stop", "failed to save index")
          /\ UNCHANGED tray_recording
    /\ cPc' = [cPc EXCEPT ![c] = "idle"]
    /\ cSess' = [cSess EXCEPT ![c] = 0]
    /\ UNCHANGED <<active_recording, slotLock, nextSession, clock>>
    /\ UNCHANGED <<sessVars, workVars, sharedVars, cbVars, fsVars, ioVars, sysVars>>

\* ================================================================== next
WorkerStep(s) ==
    /\ Silent
    /\ \/ WorkerOpenDevice(s)
       \/ WorkerQueryConfig(s)
       \/ WorkerCreateFile(s)
       \/ WorkerWavNew(s)
       \/ WorkerBuildStream(s)
       \/ WorkerPlay(s)
       \/ WorkerSendReady(s)
       \/ WorkerWaitStop(s)
       \/ WorkerDropStream(s)
       \/ WorkerLoadSamples(s)
       \/ WorkerLockWriter(s)
       \/ WorkerTakeWriter(s)
       \/ WorkerFinalize(s)
       \/ WorkerMetadata(s)
       \/ WorkerDropLocals(s)
       \/ WorkerDropEnv(s)

CbStep(s) ==
    /\ Silent
    /\ \/ CbLock(s)
       \/ CbCheck(s)
       \/ CbWrite(s)
       \/ CbReturn(s)

CallerStep(c) ==
    \/ StartAlready(c)
    \/ StartDirFail(c)
    \/ StartSpawn(c)
    \/ StartRecv(c)
    \/ StartTray(c)
    \/ StopTake(c)
    \/ StopSend(c)
    \/ StopJoin(c)
    \/ StopFinish(c)

Next ==
    \/ \E c \in Callers : StartCall(c)
    \/ \E c \in Callers : StopCall(c)
    \/ \E c \in Callers : CallerStep(c)
    \/ \E s \in Sessions : WorkerStep(s)
    \/ \E s \in Sessions : WorkerPanic(s) /\ Silent
    \/ \E s \in Sessions : CbInvoke(s) /\ Silent
    \/ \E s \in Sessions : CbStep(s)

Spec == Init /\ [][Next]_vars

\* The scheduler runs every thread that can take a step; the platform
\* returns from a callback it has entered.  Nothing obliges a new command,
\* a new callback invocation or a panic to happen.
FairSpec ==
    /\ Spec
    /\ \A c \in Callers : WF_vars(CallerStep(c))
    /\ \A s \in Sessions : WF_vars(WorkerStep(s))
    /\ \A s \in Sessions : WF_vars(CbStep(s))

\* ------------------------------------------------------- restart scenario
\* a start that may spawn a further session after the first one
RestartSpawn(c) == SpawnSession(c, MaxSessions + MaxRestarts)

RestartCallerStep(c) ==
    \/ StartAlready(c)
    \/ StartDirFail(c)
    \/ RestartSpawn(c)
    \/ StartRecv(c)
    \/ StartTray(c)
    \/ StopTake(c)
    \/ StopSend(c)
    \/ StopJoin(c)
    \/ StopFinish(c)

\* the one configuration the device of the restart scenario reports
MonoI16(s) == format[s] = "I16" /\ channels_in[s] = 1

\* The commands and the workers of successive sessions, on a mono I16
\* device that delivers no buffer and with no call panicking: every
\* behaviour of it is a behaviour of the program.
RestartNext ==
    \/ \E c \in Callers : StartCall(c)
    \/ \E c \in Callers : StopCall(c)
    \/ \E c \in Callers : RestartCallerStep(c)
    \/ \E s \in Sessions : WorkerStep(s) /\ MonoI16(s)'

RestartSpec == Init /\ [][RestartNext]_vars

\* ------------------------------------------------------- dropped session
\* The owner of a started RecordingSession lets go of it without calling
\* stop: the struct has no Drop of its own, so its fields are dropped, the
\* stop sender among them, and the JoinHandle detaches the worker.
SessionDrop(s) ==
    /\ active_recording = s
    /\ SlotLockFree
    /\ \A c \in Callers : cSess[c] # s
    /\ active_recording' = 0
    /\ stop_tx' = [stop_tx EXCEPT ![s] = FALSE]
    /\ UNCHANGED <<slotLock, cPc, cSess, nextSession, clock, tray_recording,
                   recordings, index_file>>
    /\ UNCHANGED <<filename, stopQ, stopSent, startResult, stopResult>>
    /\ UNCHANGED <<workVars, sharedVars, cbVars, fsVars, ioVars, sysVars>>

DropNext ==
    \/ Next
    \/ \E s \in Sessions : SessionDrop(s) /\ Silent

DropSpec == Init /\ [][DropNext]_vars

\* scheduling as in FairSpec
FairDropSpec ==
    /\ DropSpec
    /\ \A c \in Callers : WF_vars(CallerStep(c))
    /\ \A s \in Sessions : WF_vars(WorkerStep(s))
    /\ \A s \in Sessions : WF_vars(CbStep(s))

\* ------------------------------------------------------ clear and purge
\* the .wav files in the recordings directory
OnDisk == {n \in Names : files[n] # "absent"}

\* Storage::rebuild_by_scanning: an entry for every .wav file, newest name
\* first
RECURSIVE ScanFrom(_)
ScanFrom(n) ==
    IF n < 0 THEN <<>>
    ELSE (IF n \in OnDisk THEN <<fileOwner[n]>> ELSE <<>>) \o ScanFrom(n - 1)
Scanned == ScanFrom(MaxClock)

\* Storage::load_or_rebuild_index, when it succeeds: the saved index, or a
\* scan when there is none
Loaded == IF index_file = NoIndex THEN Scanned ELSE index_file

\* the file names of the entries
EntryNames(entries) == {filename[entries[i]] : i \in 1..Len(entries)}

\* the subsets of the entries a cutoff can call old: with an entry, every
\* entry of an earlier or equal name
OldSets(entries) ==
    {old \in SUBSET EntryNames(entries) :
        \A n \in old, m \in EntryNames(entries) : m <= n => m \in old}

\* std::fs::remove_file on each of the names, except those it fails on
Removed(names, failed) ==
    [n \in Names |-> IF n \in names \ failed THEN "absent" ELSE files[n]]

\* what a failed save_index leaves of the index: the old one, or none
\* (removed, and the rename failed)
AfterFailedSave == {Loaded, NoIndex}

\* Storage::clear_all_recordings and the command around it: every file of
\* the index and every other .wav file in the directory is removed, the
\* index is saved empty and state.recordings is emptied.  No step of it
\* looks at active_recording.
ClearAll(c) ==
    /\ cPc[c] = "idle"
    /\ \/ /\ lastRet' = Ret(c, "clear", "clear failed")
          /\ UNCHANGED <<files, index_file, recordings>>
       \/ \E failed \in SUBSET OnDisk :
             /\ files' = Removed(EntryNames(Loaded) \cup OnDisk, failed)
             /\ \/ /\ index_file' = <<>>
                   /\ recordings' = <<>>
                   /\ lastRet' = Ret(c, "clear", "Ok")
                \/ /\ index_file' \in AfterFailedSave
                   /\ UNCHANGED recordings
                   /\ lastRet' = Ret(c, "clear", "clear failed")
    /\ UNCHANGED <<active_recording, slotLock, cPc, cSess, nextSession, clock,
                   tray_recording>>
    /\ UNCHANGED <<fileOwner, finalized, encoded, ioVars, sysVars>>
    /\ UNCHANGED <<sessVars, workVars, sharedVars, cbVars>>

\* Storage::purge_old_recordings: the files of the index entries older
\* than the cutoff are removed and the rest is saved as the index; an
\* entry leaves the index even if its file could not be removed
PurgeStorage(old) ==
    \E failed \in SUBSET (old \cap OnDisk) : files' = Removed(old, failed)

\* to_keep: the entries that are not old, in their order
Kept(old) == SelectSeq(Loaded, LAMBDA e : filename[e] \notin old)

\* the purge_old_recordings command: purge, then reload state.recordings
PurgeCommand(c) ==
    /\ cPc[c] = "idle"
    /\ \/ /\ lastRet' = Ret(c, "purge", "purge failed")
          /\ UNCHANGED <<files, index_file, recordings>>
       \/ \E old \in OldSets(Loaded) :
             /\ PurgeStorage(old)
             /\ \/ /\ index_file' = Kept(old)
                   /\ recordings' = Kept(old)
                   /\ lastRet' = Ret(c, "purge", "Ok")
                \/ /\ index_file' \in AfterFailedSave
                   /\ UNCHANGED recordings
                   /\ lastRet' = Ret(c, "purge", "purge failed")
    /\ UNCHANGED <<active_recording, slotLock, cPc, cSess, nextSession, clock,
                   tray_recording>>
    /\ UNCHANGED <<fileOwner, finalized, encoded, ioVars, sysVars>>
    /\ UNCHANGED <<sessVars, workVars, sharedVars, cbVars>>

\* to_keep of a purge that loaded these entries
KeptOf(entries, old) == SelectSeq(entries, LAMBDA e : filename[e] \notin old)

\* the startup and the daily purge threads, up to the loaded index
\* (load_or_rebuild_index); loading may fail, and the thread only logs it
PurgeThreadLoad ==
    /\ purgePc = "idle"
    /\ \/ /\ purgePc' = "loaded"
          /\ purge_entries' = Loaded
       \/ UNCHANGED purgeVars
    /\ UNCHANGED <<cmdVars, sessVars, workVars, sharedVars, cbVars, fsVars, ioVars>>
    /\ UNCHANGED <<purgeFnVars, hotkeyVars, pttVars, hudVars>>

\* the rest of the purge thread: the delete loop over the entries it has
\* loaded and save_index(&to_keep); state.recordings is not reloaded
PurgeThreadSave ==
    /\ purgePc = "loaded"
    /\ \E old \in OldSets(purge_entries) :
          /\ PurgeStorage(old)
          /\ index_file' \in {KeptOf(purge_entries, old)} \cup AfterFailedSave
    /\ purgePc' = "idle"
    /\ purge_entries' = <<>>
    /\ UNCHANGED <<active_recording, slotLock, cPc, cSess, nextSession, clock,
                   tray_recording, recordings>>
    /\ UNCHANGED <<fileOwner, finalized, encoded, ioVars>>
    /\ UNCHANGED <<sessVars, workVars, sharedVars, cbVars>>
    /\ UNCHANGED <<purgeFnVars, hotkeyVars, pttVars, hudVars>>

\* a step of a purge thread
PurgeThread == PurgeThreadLoad \/ PurgeThreadSave

\* The commands and the worker with the clear and purge operations, on a
\* mono I16 device that delivers no buffer and with no call panicking:
\* every behaviour of it is a behaviour of the program.
StorageNext ==
    \/ \E c \in Callers : StartCall(c)
    \/ \E c \in Callers : StopCall(c)
    \/ \E c \in Callers : CallerStep(c)
    \/ \E s \in Sessions : WorkerStep(s) /\ MonoI16(s)'
    \/ \E c \in Callers : ClearAll(c)
    \/ \E c \in Callers : PurgeCommand(c)
    \/ PurgeThread /\ Silent

StorageSpec == Init /\ [][StorageNext]_vars

\* ---------------------------------------------------- stream with errors
\* the program on a device that also reports stream errors
NoisyNext ==
    \/ Next
    \/ \E s \in Sessions : StreamError(s) /\ Silent

NoisySpec == Init /\ [][NoisyNext]_vars

\* ============================================================ normalizer
\* i16::MAX, u16::MAX and the offset u16_to_i16 subtracts
I16Max == 32767
U16Max == 65535
U16Offset == 32768
I16Min == -I16Max - 1

\* Finite floats are the multiples k / FloatDen with |k| <= MaxFloatNum:
\* FloatDen is a power of two, so k / FloatDen and its product with 32767.0
\* are exact in f32 and the arithmetic below is the machine's.
FloatDen == 4
MaxFloatNum == 8

\* the native samples a callback buffer can hold: fmt is the stream's
\* sample format and, for floats, the kind of value
\*   "F32"     v / FloatDen          "F32Huge"  v * f32::MAX  (v = 1 or -1)
\*   "F32Inf"  v * infinity          "F32NaN"   not a number
NativeSamples ==
    [fmt : {"I16"}, v : I16Min..I16Max]
        \cup [fmt : {"U16"}, v : 0..U16Max]
        \cup [fmt : {"F32"}, v : (-MaxFloatNum)..MaxFloatNum]
        \cup [fmt : {"F32Huge", "F32Inf"}, v : {-1, 1}]
        \cup [fmt : {"F32NaN"}, v : {0}]

\* `as i16` on an integer keeps the low 16 bits
WrapI16(n) == ((n + U16Offset) % (U16Max + 1)) - U16Offset

\* `as i16` on a float truncates toward zero and saturates (NaN gives 0)
SatI16(n) == IF n > I16Max THEN I16Max ELSE IF n < I16Min THEN I16Min ELSE n
TruncDiv(a, b) == IF a >= 0 THEN a \div b ELSE -((-a) \div b)

\* s.clamp(-1.0, 1.0), in units of 1 / FloatDen
Clamped(x) ==
    IF x.fmt = "F32"
    THEN IF x.v > FloatDen THEN FloatDen ELSE IF x.v < -FloatDen THEN -FloatDen ELSE x.v
    ELSE x.v * FloatDen

\* the float is scaled as it is, without the clamp
f32_to_i16_unclamped(x) ==
    IF x.fmt = "F32NaN" THEN 0
    ELSE IF x.fmt = "F32" THEN SatI16(TruncDiv(x.v * I16Max, FloatDen))
    ELSE SatI16(x.v * (I16Max + 1))

\* fn f32_to_i16(s: f32) -> i16
f32_to_i16(x) ==
    IF x.fmt = "F32NaN" THEN 0
    ELSE SatI16(TruncDiv(Clamped(x) * I16Max, FloatDen))

\* the u16 is reinterpreted as an i16:  s as i16
u16_to_i16_reinterpret(v) == WrapI16(v)

\* fn u16_to_i16(s: u16) -> i16 { (s as i32 - 32768) as i16 }
u16_to_i16(v) == WrapI16(v - U16Offset)

\* what the callback of the sample's format hands to write_sample
Normalize(x) ==
    IF x.fmt = "I16" THEN x.v
    ELSE IF x.fmt = "U16" THEN u16_to_i16(x.v)
    ELSE f32_to_i16(x)

\* the callback converts the sample it was given
NormalizeSample ==
    /\ sample_in # NoSample
    /\ sample_out = NoOutput
    /\ sample_out' = <<Normalize(sample_in)>>
    /\ UNCHANGED <<err_log, sample_in, sysVars>>
    /\ UNCHANGED <<cmdVars, sessVars, workVars, sharedVars, cbVars, fsVars>>

NormalizeInit == \E x \in NativeSamples : InitState(x)

NormalizeNext == NormalizeSample /\ Silent

\* one native sample, of any format and value, and its conversion
NormalizeSpec == NormalizeInit /\ [][NormalizeNext]_vars

\* ================================================================ claims
StartFailed(s) == startResult[s] \notin {"none", "pending", "Ok"}
Finalizing(s) == wPc[s] \in {"take_writer", "finalize"}
TeardownPcs == {"drop_stream", "load_samples", "lock_writer", "take_writer",
                "finalize", "metadata"}

\* C1: the worker tears the capture stream down before it starts finalizing
\* the writer, and in no state are a callback's sample write and the
\* writer's finalization both in progress.
C1_TeardownBeforeFinalize ==
    \A s \in Sessions :
        /\ Finalizing(s) => stream[s] = "dropped"
        /\ ~(cbPc[s] = "write" /\ Finalizing(s))

\* a callback invocation is still in flight while the writer is finalized
C1_Witness ==
    \E s \in Sessions : wPc[s] = "finalize" /\ stream[s] = "dropped" /\ cbPc[s] = "lock"

\* C2: once the writer slot is None, a callback invocation (whatever the
\* sample format) writes no sample, leaves samples_written alone and
\* returns at its check of the slot.
C2_NoWriteAfterNone ==
    [][\A s \in Sessions :
          writer[s] = "None" =>
              /\ encoded'[s] = encoded[s]
              /\ samples_written'[s] = samples_written[s]
              /\ cbPc'[s] # "write"
              /\ cbPc[s] = "check" /\ cbPc'[s] # "check" =>
                     cbPc'[s] = "idle" /\ writerLock'[s] = "free"]_vars

\* a callback holds the lock and finds the slot empty
C2_Witness ==
    \E s \in Sessions :
        writer[s] = "None" /\ cbPc[s] = "check" /\ format[s] \in {"I16", "U16", "F32"}

\* C3: the ready-success signal is sent only once the stream is playing and
\* before the worker waits for stop; start returns a session only then.
C3_ReadyAfterPlaying ==
    \A s \in Sessions :
        /\ (readyQ[s] # <<>> \/ startResult[s] = "Ok") =>
               /\ stream[s] \in {"playing", "dropped"}
               /\ wPc[s] \notin {"open_device", "query_config", "create_file",
                                 "wav_new", "build_stream", "play", "send_ready"}
        /\ wPc[s] = "wait_stop" => (readyQ[s] = <<"Ok">> \/ startResult[s] = "Ok")
        /\ active_recording = s =>
               wPc[s] = "wait_stop" /\ stream[s] = "playing" /\ deviceHeld[s]

\* start has returned the session and the worker is waiting for stop
C3_Witness ==
    \E s \in Sessions :
        startResult[s] = "Ok" /\ active_recording = s /\ wPc[s] = "wait_stop"

\* C4 (as claimed): a failed initialisation makes start return the
\* worker's own error kind.
C4_ExactStartError ==
    \A s \in Sessions :
        (StartFailed(s) /\ wRet[s] \in {"NoDefaultInputDevice", "DefaultInputConfig",
                                        "UnsupportedSampleFormat", "BuildStream",
                                        "PlayStream"})
            => startResult[s] = wRet[s]

\* C5: when the ready channel is closed with no message in it, the start
\* that waits on it returns the 'thread failed to initialize' error.
C5_ClosedReadyChannel ==
    \A s \in Sessions :
        (startResult[s] = "pending" /\ readyQ[s] = <<>> /\ ~ready_tx[s])
            ~> (startResult[s] = ThreadInitFailed)

\* start returned the 'thread failed to initialize' error after a panic
C5_Witness ==
    \E s \in Sessions : startResult[s] = ThreadInitFailed /\ wRet[s] = "panic"

\* C6: when start returns an error, the worker has left its closure with
\* every device and stream handle released, and it never waited for stop.
C6_NoWorkerLeftRunning ==
    \A s \in Sessions :
        StartFailed(s) =>
            /\ wPc[s] = "exited"
            /\ ~deviceHeld[s]
            /\ stream[s] \in {"none", "dropped"}
            /\ wRet[s] # "Ok" /\ ~stopSent[s] /\ stopQ[s] = 0

\* start failed after the worker had built a stream on an open device
C6_Witness ==
    \E s \in Sessions : StartFailed(s) /\ wRet[s] = "PlayStream" /\ stream[s] = "dropped"

\* C7 (as claimed): when start returns an error, no file created for the
\* session is left in the recordings directory.
C7_NoPartialFile ==
    \A s \in Sessions :
        StartFailed(s) =>
            ~(files[filename[s]] # "absent" /\ fileOwner[filename[s]] = s)

\* C8: a stop on a running session returns, with a FinishedRecording or an
\* error, and by then the worker has exited and the stream is torn down.
C8_StopReturns ==
    /\ \A c \in Callers :
          (cPc[c] = "stop_send") ~>
              (cPc[c] = "idle" /\ lastRet \in {Ret(c, "stop", "Ok"),
                                                Ret(c, "stop", "failed to stop"),
                                                Ret(c, "stop", "failed to save index")})
    /\ [](\A s \in Sessions :
            stopResult[s] # "none" =>
                /\ wPc[s] = "exited"
                /\ stream[s] = "dropped"
                /\ writerLock[s] # "worker"
                /\ stopResult[s] \in {"Ok", "Io", "Wav", ThreadPanicked})

\* stop returned a FinishedRecording
C8_Witness ==
    \E c \in Callers :
        /\ cPc[c] = "idle" /\ lastRet = Ret(c, "stop", "Ok")
        /\ \E s \in Sessions : stopResult[s] = "Ok" /\ wPc[s] = "exited"

\* C9: the worker begins teardown and finalization only on a session whose
\* stop has been requested.
C9_TeardownOnlyAfterStop ==
    \A s \in Sessions : wPc[s] \in TeardownPcs => stopSent[s]

\* the worker has woken from its wait and is about to drop the stream
C9_Witness ==
    \E s \in Sessions : wPc[s] = "drop_stream" /\ stopSent[s] /\ stream[s] = "playing"

\* a start is inside its startup handshake
InHandshake == \E d \in Callers : cPc[d] = "start_recv"

\* C10: a stop requested during a start's handshake waits until the
\* handshake has resolved; it then takes a fully started session or fails
\* with 'not recording'.
C10_StopWaitsForHandshake ==
    /\ [][\A c \in Callers :
            cPc[c] = "stop_lock" =>
                /\ InHandshake => cPc'[c] = "stop_lock"
                /\ cPc'[c] # "stop_lock" =>
                       \/ cPc'[c] = "idle" /\ lastRet' = Ret(c, "stop", "not recording")
                       \/ /\ cPc'[c] = "stop_send"
                          /\ startResult[cSess'[c]] = "Ok"
                          /\ wPc[cSess'[c]] = "wait_stop"]_vars
    /\ [](\A c \in Callers :
            cPc[c] \in {"stop_send", "stop_join"} => startResult[cSess[c]] = "Ok")

\* a stop request is pending while a start waits for the ready signal
C10_Witness ==
    \E c, d \in Callers : cPc[c] = "stop_lock" /\ cPc[d] = "start_recv"

\* the positions of a stop_recording that has taken a session
StopPcs == {"stop_send", "stop_join", "stop_finish"}

\* C11: a session is taken by at most one stop request; a stop request that
\* finds the slot empty returns 'not recording' and sends no signal, joins
\* no thread and leaves the slot and the recordings index as they are.
C11_StopAtMostOnce ==
    /\ [][\A c \in Callers :
            (cPc[c] = "stop_lock" /\ cPc'[c] # "stop_lock") =>
                IF active_recording = 0
                THEN /\ cPc'[c] = "idle" /\ cSess'[c] = 0
                     /\ lastRet' = Ret(c, "stop", "not recording")
                     /\ UNCHANGED <<active_recording, recordings, index_file>>
                     /\ UNCHANGED <<stopQ, stopSent, stop_tx, stopResult>>
                ELSE /\ cPc'[c] = "stop_send" /\ cSess'[c] = active_recording
                     /\ ~stopSent[active_recording]
                     /\ stopResult[active_recording] = "none"
                     /\ \A d \in Callers :
                            cPc[d] \in StopPcs => cSess[d] # active_recording]_vars
    /\ [](\A s \in Sessions :
            /\ stopQ[s] <= 1
            /\ (stopSent[s] \/ \E c \in Callers : cPc[c] \in StopPcs /\ cSess[c] = s)
                   => active_recording # s
            /\ Cardinality({c \in Callers : cPc[c] \in StopPcs /\ cSess[c] = s}) <= 1)

\* a second stop request returns 'not recording' while the first one is
\* still joining the worker
C11_Witness ==
    \E c, d \in Callers :
        /\ c # d /\ cPc[d] = "stop_join"
        /\ cPc[c] = "idle" /\ lastRet = Ret(c, "stop", "not recording")

\* the worker of session s is between its spawn and its exit
WorkerAlive(s) == wPc[s] \notin {"unspawned", "exited"}

\* C12 (as claimed): in every state at most one session is active: at most
\* one worker is alive, at most one holds the device, and at most one
\* encoder has an output file open.
C12_SingleActiveSession ==
    /\ Cardinality({s \in Sessions : WorkerAlive(s)}) <= 1
    /\ Cardinality({s \in Sessions : deviceHeld[s]}) <= 1
    /\ Cardinality({s \in Sessions : writer[s] = "Some"}) <= 1

\* the session's place in its lifecycle, as its caller sees it
Phase(s) ==
    IF startResult[s] = "none" THEN "Uninitialized"
    ELSE IF startResult[s] = "pending" THEN "Starting"
    ELSE IF startResult[s] # "Ok" THEN "StartFailed"
    ELSE IF stopResult[s] = "Ok" THEN "Stopped"
    ELSE IF stopResult[s] # "none" THEN "StopFailed"
    ELSE IF stopSent[s] THEN "Stopping"
    ELSE "Running"

PhaseEdges ==
    {<<"Uninitialized", "Starting">>, <<"Starting", "Running">>,
     <<"Starting", "StartFailed">>, <<"Running", "Stopping">>,
     <<"Stopping", "Stopped">>, <<"Stopping", "StopFailed">>}

\* every step keeps each session in its phase or moves it along an edge
PhaseMoves ==
    \A s \in Sessions :
        Phase(s)' # Phase(s) => <<Phase(s), Phase(s)'>> \in PhaseEdges

\* no sample of session s is written in this step
NoSampleWritten(s) ==
    encoded'[s] = encoded[s] /\ samples_written'[s] = samples_written[s]

\* C13 (as claimed): a session that has left Running (it is Stopping,
\* Stopped or StopFailed) never writes samples again.
C13_NoWriteAfterRunning ==
    [][\A s \in Sessions :
          Phase(s) \in {"Stopping", "Stopped", "StopFailed"} => NoSampleWritten(s)]_vars

\* C13 (amended): each session moves only along the lifecycle's edges, so
\* StartFailed, Stopped and StopFailed are never left; a session that is
\* Uninitialized, StartFailed or Stopped writes no sample.
C13_Lifecycle ==
    [][/\ PhaseMoves
       /\ \A s \in Sessions :
             Phase(s) \in {"Uninitialized", "StartFailed", "Stopped"}
                 => NoSampleWritten(s)]_vars

\* a session has been stopped after samples were written, with a callback
\* invocation still in flight
C13_Witness ==
    \E s \in Sessions : Phase(s) = "Stopped" /\ encoded[s] > 0 /\ cbPc[s] # "idle"

\* C14: the encoder of a session is finalized at most once, and exactly
\* once when its stop returns a FinishedRecording; while and after it is
\* finalized the writer slot is None (or gone with its last owner), and a
\* slot that is None stays None.
C14_FinalizeOnce ==
    /\ [](\A s \in Sessions :
            /\ finalized[s] <= 1
            /\ stopResult[s] = "Ok" =>
                   finalized[s] = 1 /\ files[filename[s]] = "final"
            /\ wPc[s] = "finalize" => writer[s] = "None" /\ finalized[s] = 0
            /\ finalized[s] > 0 => writer[s] \in {"None", "freed"})
    /\ [][\A s \in Sessions : writer[s] = "None" => writer'[s] = "None"]_vars

\* a stop has returned a FinishedRecording for a file that holds samples
C14_Witness ==
    \E s \in Sessions :
        stopResult[s] = "Ok" /\ finalized[s] = 1 /\ encoded[s] > 0 /\ writer[s] = "None"

\* C15: samples_written equals the number of samples the encoder has
\* accepted; it changes only by one, together with one accepted write of a
\* first-channel sample by a callback that holds the lock on an open
\* writer, and it never decreases.
C15_CounterMatchesWrites ==
    /\ [](\A s \in Sessions : samples_written[s] = encoded[s])
    /\ [][\A s \in Sessions :
            /\ samples_written'[s] >= samples_written[s]
            /\ (samples_written'[s] # samples_written[s] \/ encoded'[s] # encoded[s]) =>
                   /\ samples_written'[s] = samples_written[s] + 1
                   /\ encoded'[s] = encoded[s] + 1
                   /\ cbPc[s] = "write" /\ writerLock[s] = "cb" /\ writer[s] = "Some"
                   /\ cbIdx[s] < cbLen[s] /\ cbIdx[s] % channels_in[s] = 0
                   /\ cbIdx'[s] = cbIdx[s] + channels_in[s]]_vars

\* a stereo buffer of one frame has been gone through: the write of its
\* first sample failed and its second sample was skipped
C15_Witness ==
    \E s \in Sessions :
        /\ cbPc[s] = "write" /\ channels_in[s] = 2 /\ cbLen[s] = 2 /\ cbIdx[s] = 2
        /\ samples_written[s] = 0

\* C16 (as claimed): the duration of a FinishedRecording is N / R for the
\* number N of samples in the finalized file, and 0 when N = 0 or R = 0.
C16_DurationMatchesFile ==
    \A s \in Sessions :
        stopResult[s] = "Ok" =>
            /\ FinishedDuration(s) = DurationSec(encoded[s], sample_rate[s])
            /\ (encoded[s] = 0 \/ sample_rate[s] = 0) => FinishedDuration(s) = 0

\* the session's output file is finalized and no encoder has it open
FileClosedFinal(s) ==
    files[filename[s]] = "final" /\ finalized[s] = 1 /\ writer[s] = "None"

\* C17: the worker reads the file's size only once finalize has returned
\* successfully and the file is closed, and a FinishedRecording is produced
\* and returned only for such a file.
C17_SizeAfterFinalize ==
    \A s \in Sessions :
        /\ wPc[s] = "metadata" => FileClosedFinal(s)
        /\ wRet[s] = "Ok" => FileClosedFinal(s)
        /\ stopResult[s] = "Ok" => FileClosedFinal(s) /\ wRet[s] = "Ok"

\* the worker is about to read the size of a finalized file with samples
C17_Witness ==
    \E s \in Sessions : wPc[s] = "metadata" /\ FileClosedFinal(s) /\ encoded[s] > 0

\* C18: when the worker of a started session has panicked, the stop that
\* joins it returns the error 'recording thread panicked' (as 'failed to
\* stop: ..'): it does not wait for ever and the panic is not handed on.
C18_PanicBecomesError ==
    /\ (\E c \in Callers : cPc[c] = "stop_join" /\ wRet[cSess[c]] = "panic") ~>
          (\E c \in Callers, s \in Sessions :
              /\ cPc[c] = "idle" /\ lastRet = Ret(c, "stop", "failed to stop")
              /\ wRet[s] = "panic" /\ stopResult[s] = ThreadPanicked)
    /\ [](\A s \in Sessions :
            /\ stopResult[s] # "panic"
            /\ (wRet[s] = "panic" /\ stopResult[s] # "none") =>
                   startResult[s] = "Ok" /\ stopResult[s] = ThreadPanicked)

\* a stop has returned the panic of a worker that was finalizing
C18_Witness ==
    \E c \in Callers, s \in Sessions :
        /\ lastRet = Ret(c, "stop", "failed to stop")
        /\ stopResult[s] = ThreadPanicked /\ finalized[s] = 1

\* C19 (as claimed): a stop whose worker did not panic and whose finalize
\* succeeded returns a FinishedRecording.
C19_ErrorOnlyFromFinalize ==
    \A s \in Sessions :
        (stopResult[s] # "none" /\ wRet[s] # "panic" /\ FileClosedFinal(s))
            => stopResult[s] = "Ok"

\* C20 (as claimed): a callback that has reached the writer lock is never
\* kept waiting there: whenever it stands at the lock it can go on at once
\* (by returning, if the lock is not to be had).
C20_CallbackNeverWaits ==
    \A s \in Sessions : cbPc[s] = "lock" => ENABLED CbLock(s)

\* this step is an iteration of session s's callback loop whose
\* write_sample failed
FailedWrite(s) ==
    /\ cbPc[s] = "write" /\ cbPc'[s] = "write"
    /\ cbIdx'[s] # cbIdx[s]
    /\ encoded'[s] = encoded[s]

\* this step is a call of err_fn
ErrorReported == err_log' # err_log

\* stop has been asked of session s, or its handle is gone
StopRequested(s) == stopSent[s] \/ ~stop_tx[s]

\* C21: a stream-error notification or a failed write of a sample leaves
\* every session's lifecycle phase, writer slot, stream and results as
\* they were and returns from no command; a playing stream (one whose
\* callbacks the platform still invokes) stops playing only once stop has
\* been requested.
C21_ErrorsAreSwallowed ==
    /\ [][\A s \in Sessions :
            (ErrorReported \/ FailedWrite(s)) =>
                /\ Phase(s)' = Phase(s)
                /\ writer'[s] = writer[s]
                /\ stream'[s] = stream[s]
                /\ wPc'[s] = wPc[s] /\ wRet'[s] = wRet[s]
                /\ startResult'[s] = startResult[s]
                /\ stopResult'[s] = stopResult[s]
                /\ lastRet' = NoRet]_vars
    /\ [][\A s \in Sessions :
            (stream[s] = "playing" /\ stream'[s] # "playing") => StopRequested(s)]_vars
    /\ [](\A s \in Sessions :
            (stream[s] = "playing" /\ cbPc[s] = "idle") => ENABLED CbInvoke(s))

\* a stream error has been reported and a write has failed in a running
\* session, whose next callback is being taken
C21_Witness ==
    \E s \in Sessions :
        /\ err_log > 0 /\ Phase(s) = "Running" /\ ~StopRequested(s)
        /\ cbPc[s] = "write" /\ cbIdx[s] > 0 /\ encoded[s] = 0
        /\ writer[s] = "Some" /\ stream[s] = "playing"

\* this step is caller c's start returning because the recordings
\* directory could not be made
DirFailReturn(c) ==
    /\ cPc[c] = "start_lock"
    /\ lastRet' \in {Ret(c, "start", "failed to get recordings_dir"),
                     Ret(c, "start", "failed to start recording")}

\* C22: a start that fails on creating the recordings directory returns
\* its error in the step that finds the failure: no worker is spawned, no
\* session or channel comes to exist, no file is created or changed and the
\* slot stays empty.
C22_DirFailureBeforeSpawn ==
    [][\A c \in Callers :
          DirFailReturn(c) =>
              /\ nextSession' = nextSession
              /\ wPc' = wPc /\ stop_tx' = stop_tx /\ ready_tx' = ready_tx
              /\ startResult' = startResult
              /\ files' = files /\ fileOwner' = fileOwner
              /\ active_recording' = active_recording /\ active_recording = 0
              /\ cPc'[c] = "idle"]_vars

\* the very first start has failed on the directory: no session was ever
\* spawned and no file exists
C22_Witness ==
    \E c \in Callers :
        /\ lastRet = Ret(c, "start", "failed to start recording")
        /\ nextSession = 1
        /\ \A s \in Sessions : wPc[s] = "unspawned"
        /\ \A n \in Names : files[n] = "absent"

\* this step is session s's File::create failing
CreateFileFails(s) == wPc[s] = "create_file" /\ wRet'[s] = "Io"

\* C23 (as claimed): when the output file cannot be opened, the session's
\* worker has not yet opened the input device.
C23_FileOpenedFirst ==
    [][\A s \in Sessions : CreateFileFails(s) => ~deviceHeld[s]]_vars

\* ceil(L / N) for N >= 1
CeilDiv(L, N) == (L + N - 1) \div N

\* C24: the callback loop of a session with N = channels_in >= 1 starts at
\* index 0, attempts in each iteration the sample at its index i, which is
\* a multiple of N below the buffer length L, and goes on to i + N; it ends
\* at the first multiple of N that is >= L, i.e. after ceil(L/N) attempts.
\* samples_written moves only in these iterations, by 1 when the write
\* succeeded and by 0 when it failed.
C24_FirstChannelOnly ==
    /\ [](\A s \in Sessions :
            /\ channels_in[s] >= 1
            /\ cbPc[s] = "write" =>
                  /\ cbIdx[s] % channels_in[s] = 0
                  /\ cbIdx[s] <= channels_in[s] * CeilDiv(cbLen[s], channels_in[s]))
    /\ [][\A s \in Sessions :
            /\ (cbPc[s] = "check" /\ cbPc'[s] = "write") => cbIdx'[s] = 0
            /\ (cbPc[s] = "write" /\ cbPc'[s] = "write" /\ cbIdx'[s] # cbIdx[s]) =>
                  /\ cbIdx[s] < cbLen[s]
                  /\ cbIdx'[s] = cbIdx[s] + channels_in[s]
                  /\ samples_written'[s] =
                        samples_written[s] + (IF encoded'[s] # encoded[s] THEN 1 ELSE 0)
            /\ (cbPc[s] = "write" /\ cbPc'[s] = "write" /\ cbIdx'[s] = cbIdx[s]) =>
                  samples_written'[s] = samples_written[s]
            /\ (cbPc[s] = "write" /\ cbPc'[s] # "write") =>
                  /\ cbIdx[s] = channels_in[s] * CeilDiv(cbLen[s], channels_in[s])
                  /\ samples_written'[s] = samples_written[s]
            /\ (cbPc[s] # "write" /\ cbPc'[s] # "write") =>
                  samples_written'[s] = samples_written[s]]_vars

\* the loop over a buffer of two
\* samples from a two-channel device has ended after its one write, which
\* succeeded
C24_Witness ==
    \E s \in Sessions :
        /\ cbPc[s] = "write" /\ channels_in[s] = 2 /\ cbLen[s] = 2
        /\ cbIdx[s] = 2 /\ samples_written[s] = 1 /\ encoded[s] = 1

\* the sample at the normalizer has been converted
Normalized == sample_out # NoOutput

\* the largest and the smallest value of each native representation; for
\* floats both full scale (1.0, -1.0) and the largest finite magnitude
IsMaxSample(x) ==
    \/ x.fmt = "I16" /\ x.v = I16Max
    \/ x.fmt = "U16" /\ x.v = U16Max
    \/ x.fmt = "F32" /\ x.v = FloatDen
    \/ x.fmt = "F32Huge" /\ x.v = 1
IsMinSample(x) ==
    \/ x.fmt = "I16" /\ x.v = I16Min
    \/ x.fmt = "U16" /\ x.v = 0
    \/ x.fmt = "F32" /\ x.v = -FloatDen
    \/ x.fmt = "F32Huge" /\ x.v = -1

\* C25 (as claimed): the maximum of each native representation is
\* normalized to 32767 and its minimum to -32768.
C25_ExtremesMapToExtremes ==
    Normalized =>
        /\ IsMaxSample(sample_in) => sample_out = <<I16Max>>
        /\ IsMinSample(sample_in) => sample_out = <<I16Min>>

\* C26: every u16 sample s is stored as s - 32768, which lies in the i16
\* range and is below what s + 1 is stored as; every i16 sample is stored
\* as it is.
C26_U16OffsetExact ==
    Normalized =>
        /\ sample_in.fmt = "U16" =>
              /\ sample_out = <<sample_in.v - U16Offset>>
              /\ sample_out[1] \in I16Min..I16Max
              /\ sample_in.v < U16Max => sample_out[1] < u16_to_i16(sample_in.v + 1)
        /\ sample_in.fmt = "I16" => sample_out = <<sample_in.v>>

\* the largest u16 has been converted
C26_Witness == sample_in = [fmt |-> "U16", v |-> U16Max] /\ sample_out = <<I16Max>>

\* a float outside [-1.0, 1.0], and the bound nearest to it
OutOfRange(x) ==
    \/ x.fmt = "F32" /\ (x.v > FloatDen \/ x.v < -FloatDen)
    \/ x.fmt \in {"F32Huge", "F32Inf"}
NearestBound(x) == [fmt |-> "F32", v |-> IF x.v > 0 THEN FloatDen ELSE -FloatDen]

\* C27: a float outside [-1.0, 1.0] is converted to what the nearest of
\* the two bounds is converted to, which lies in the i16 range.
C27_ClampedNotWrapped ==
    (Normalized /\ OutOfRange(sample_in)) =>
        /\ sample_out = <<f32_to_i16(NearestBound(sample_in))>>
        /\ sample_out[1] \in I16Min..I16Max
        /\ sample_out[1] = IF sample_in.v > 0 THEN I16Max ELSE -I16Max

\* the most negative float of the grid, which is below -1.0, has been
\* converted
C27_Witness ==
    /\ sample_in = [fmt |-> "F32", v |-> -MaxFloatNum]
    /\ MaxFloatNum > FloatDen
    /\ sample_out = <<-I16Max>>


\* session s was started and its handle was dropped without stop
Dropped(s) == startResult[s] = "Ok" /\ ~stop_tx[s] /\ ~stopSent[s]

\* C28: once the handle of a started session has been dropped without
\* stop, its worker does not stay at the blocking receive: it goes on to
\* drop the stream and to its end, and the encoder is finalized (by the
\* worker or, if it could not take it, when the last holder lets go of it).
C28_DropEndsWorker ==
    (\E s \in Sessions : Dropped(s)) ~>
        (\E s \in Sessions :
            /\ Dropped(s)
            /\ wPc[s] = "exited" /\ stream[s] = "dropped" /\ ~deviceHeld[s]
            /\ finalized[s] = 1 /\ writer[s] # "Some")

\* the worker of a dropped session has finalized the file and returned
\* the recording, which nobody joins
C28_Witness ==
    \E s \in Sessions :
        /\ Dropped(s) /\ wPc[s] = "exited" /\ wRet[s] = "Ok"
        /\ files[filename[s]] = "final" /\ finalized[s] = 1

\* no start_recording or stop_recording command is executing
NoCommandRunning == \A c \in Callers : cPc[c] = "idle"

\* C29 (as claimed): whenever no command is executing, the tray menu was
\* last built as recording exactly if the active-recording slot holds a
\* session.
C29_TrayMatchesSlot ==
    NoCommandRunning => (tray_recording <=> active_recording # 0)

\* session s has started successfully and has not been stopped
ActiveSession(s) == startResult[s] = "Ok" /\ stopResult[s] = "none"

\* C30 (as claimed): no step removes the output file of a session that
\* has started and has not yet been stopped.
C30_ActiveFileKept ==
    [][\A s \in Sessions :
          (ActiveSession(s) /\ files[filename[s]] # "absent") =>
              files'[filename[s]] # "absent"]_vars

\* ------------------------------------------- filenames of successive sessions
\* both sessions started successfully
BothStarted(s, t) == startResult[s] = "Ok" /\ startResult[t] = "Ok"

\* C32: any two sessions that start successfully get distinct filenames, so
\* no session creates the file of an earlier recording anew and the index
\* never holds the same id twice, also when both start in the same second
C32_DistinctFilenames ==
    /\ \A s, t \in Sessions : (s # t /\ BothStarted(s, t)) => filename[s] # filename[t]
    /\ \A i, j \in 1..Len(recordings) :
          i # j => filename[recordings[i]] # filename[recordings[j]]

\* ------------------------------------------- the list in memory and the index
\* no purge thread is between its load and its save
NoPurgeRunning == purgePc = "idle"

\* C31 (as claimed): whenever no command and no background purge is in
\* progress and an index is stored, the in-memory recordings list equals
\* the stored index
C31_MemoryMatchesIndex ==
    (NoCommandRunning /\ NoPurgeRunning /\ index_file # NoIndex) =>
        recordings = index_file

\* ------------------------------------------------------ push-to-talk tracker
\* config.code: 0 is None, UnknownCode is a code code_to_vk does not know,
\* the others are virtual key codes
MaxVk == 2
UnknownCode == MaxVk + 1
PttCodes == 0..UnknownCode

\* status(): STATE is set and its Option is Some
PttStatus == ptt_once /\ ptt_slot # NoPtt

\* the polling thread of generation g has not left its loop
PttPolling(g) == ptt_thread[g] \in {"loop", "gen", "poll", "sleep"}

\* the running flags and the threads after stop(): guard.take(),
\* running.store(false), thread.join()
StoppedRunning ==
    IF PttStatus THEN [ptt_running EXCEPT ![ptt_slot.gen] = FALSE] ELSE ptt_running
StoppedThreads ==
    IF PttStatus THEN [ptt_thread EXCEPT ![ptt_slot.gen] = "exited"] ELSE ptt_thread

\* hotkey_ptt::stop: the state is taken out of STATE, its thread is told to
\* stop and joined
PttStopEffect ==
    /\ ptt_slot' = NoPtt
    /\ ptt_running' = StoppedRunning
    /\ ptt_thread' = StoppedThreads
    /\ UNCHANGED <<ptt_once, ptt_gen>>

PttStop ==
    /\ PttStopEffect
    /\ ptt_ret' = "Ok"
    /\ Silent
    /\ UNCHANGED <<cmdVars, sessVars, workVars, sharedVars, cbVars, fsVars, ioVars>>
    /\ UNCHANGED <<purgeVars, purgeFnVars, hotkeyVars, hudVars>>

\* STATE.set(Arc::new(Mutex::new(Some(state)))): a OnceLock takes a value
\* once; on Err the new PttState is dropped, which detaches its thread and
\* leaves its running flag set
StateSet(gen, vk) ==
    IF ptt_once
    THEN /\ ptt_slot' = NoPtt
         /\ ptt_ret' = "state already set"
         /\ UNCHANGED ptt_once
    ELSE /\ ptt_once' = TRUE
         /\ ptt_slot' = [gen |-> gen, target_vk |-> vk]
         /\ ptt_ret' = "Ok"

\* hotkey_ptt::start
PttStart(code) ==
    /\ IF code = 0
       THEN /\ ptt_ret' = "missing key code in config"
            /\ UNCHANGED <<ptt_once, ptt_slot, ptt_gen, ptt_thread, ptt_running>>
       ELSE IF code = UnknownCode
       THEN /\ ptt_ret' = "unknown key code"
            /\ UNCHANGED <<ptt_once, ptt_slot, ptt_gen, ptt_thread, ptt_running>>
       ELSE IF PttStatus /\ ptt_slot.target_vk = code /\ ptt_running[ptt_slot.gen]
       THEN /\ ptt_ret' = "Ok"
            /\ UNCHANGED <<ptt_once, ptt_slot, ptt_gen, ptt_thread, ptt_running>>
       ELSE /\ ptt_gen < MaxPttGen
            /\ ptt_gen' = ptt_gen + 1
            /\ ptt_running' = [StoppedRunning EXCEPT ![ptt_gen'] = TRUE]
            /\ ptt_thread' = [StoppedThreads EXCEPT ![ptt_gen'] = "loop"]
            /\ StateSet(ptt_gen', code)
    /\ Silent
    /\ UNCHANGED <<cmdVars, sessVars, workVars, sharedVars, cbVars, fsVars, ioVars>>
    /\ UNCHANGED <<purgeVars, purgeFnVars, hotkeyVars, hudVars>>

\* the polling thread of generation g moves on: nothing else changes
PttThreadTo(g, pos) ==
    /\ ptt_thread' = [ptt_thread EXCEPT ![g] = pos]
    /\ Silent
    /\ UNCHANGED <<ptt_once, ptt_slot, ptt_gen, ptt_running, ptt_ret>>
    /\ UNCHANGED <<cmdVars, sessVars, workVars, sharedVars, cbVars, fsVars, ioVars>>
    /\ UNCHANGED <<purgeVars, purgeFnVars, hotkeyVars, hudVars>>

\* while running_thread.load(Ordering::Relaxed) { .. }
PttLoopHead(g) ==
    /\ ptt_thread[g] = "loop"
    /\ PttThreadTo(g, IF ptt_running[g] THEN "gen" ELSE "exited")

\* if GEN.load(Ordering::Relaxed) != gen_thread { break }
PttCheckGen(g) ==
    /\ ptt_thread[g] = "gen"
    /\ PttThreadTo(g, IF ptt_gen = g THEN "poll" ELSE "exited")

\* CGEventSourceKeyState and the hotkey:down / hotkey:up events
PttPollKey(g) ==
    /\ ptt_thread[g] = "poll"
    /\ PttThreadTo(g, "sleep")

\* thread::sleep(Duration::from_millis(10)), back to the loop head
PttSleep(g) ==
    /\ ptt_thread[g] = "sleep"
    /\ PttThreadTo(g, "loop")

PttThreadStep(g) ==
    \/ PttLoopHead(g)
    \/ PttCheckGen(g)
    \/ PttPollKey(g)
    \/ PttSleep(g)

PttNext ==
    \/ \E code \in PttCodes : PttStart(code)
    \/ PttStop
    \/ \E g \in PttGens : PttThreadStep(g)

PttSpec == Init /\ [][PttNext]_vars

\* C38 (as claimed): a start after start and stop does not fail on the
\* state, and status() is true exactly when a polling thread is alive
C38_RestartableTracker ==
    /\ ptt_ret # "state already set"
    /\ PttStatus <=> \E g \in PttGens : PttPolling(g)

\* ------------------------------------------------------------ global hotkey
\* key codes a front end can send: 0 is None, 1..MaxCode are codes
\* plugin_key_candidates_from_code knows, MaxCode + 1 is one it rejects
MaxCode == 1
InvalidCode == MaxCode + 1
HotkeyCodes == 0..InvalidCode

\* mods: 0 is None, 1 is Some with no modifier set, 2 is Some with modifiers
HotkeyMods == 0..2

\* plugin_key_candidates_from_code: the key names to try for a code, two
\* for an odd code (as "KeyQ" => ["Q", "KeyQ"]), one for an even code (as
\* "Space" => ["Space"]), none for a code it rejects
plugin_key_candidates_from_code(code) ==
    IF code \notin 1..MaxCode THEN <<>>
    ELSE IF code % 2 = 1 THEN <<2 * code - 1, 2 * code>>
    ELSE <<2 * code - 1>>

\* candidates.retain(|c| seen.insert(c.clone())): first occurrences only
RECURSIVE Dedup(_, _)
Dedup(seq, seen) ==
    IF seq = <<>> THEN <<>>
    ELSE IF Head(seq) \in seen THEN Dedup(Tail(seq), seen)
    ELSE <<Head(seq)>> \o Dedup(Tail(seq), seen \cup {Head(seq)})

\* generate_hotkey_candidates_from_code: every key name behind the
\* modifier prefix, in the order of the key names
generate_hotkey_candidates_from_code(code, mods) ==
    LET keys == plugin_key_candidates_from_code(code) IN
    Dedup([i \in 1..Len(keys) |-> [mods |-> mods, key |-> keys[i]]], {})

\* the accelerators the plugin can be asked to register
Accels == [mods : 1..2, key : 1..(2 * MaxCode)]

\* HotkeyState.current with its shortcut after app.global_shortcut()
\* .unregister(prev) succeeded
Unregistered == plugin \ {hk_current}

\* hotkey::unregister: current.take(), then the plugin's unregister, which
\* may fail and then leaves the shortcut registered
UnregisterEffect ==
    /\ hk_current' = NoAccel
    /\ UNCHANGED hk_last_error
    /\ IF hk_current = NoAccel
       THEN /\ UNCHANGED plugin
            /\ hk_ret' = HkRet("unregister", NoAccel, "Ok")
       ELSE \/ /\ plugin' = Unregistered
               /\ hk_ret' = HkRet("unregister", hk_current, "Ok")
            \/ /\ UNCHANGED plugin
               /\ hk_ret' = HkRet("unregister", hk_current, "unregister error")

\* a register that gives up its previous accelerator when on_shortcut(acc)
\* fails: no rollback
RegisterNoRollback(acc) ==
    \/ /\ hk_current # NoAccel
       /\ UNCHANGED <<plugin, hk_last_error>>
       /\ hk_current' = NoAccel
       /\ hk_ret' = HkRet("register", acc, "unregister error")
    \/ /\ plugin' = Unregistered \cup {acc}
       /\ hk_current' = acc
       /\ hk_last_error' = FALSE
       /\ hk_ret' = HkRet("register", acc, "Ok")
    \/ /\ plugin' = Unregistered
       /\ hk_current' = NoAccel
       /\ UNCHANGED hk_last_error
       /\ hk_ret' = HkRet("register", acc, "register error")

\* hotkey::register(acc): unregister(app)?, on_shortcut(acc), and on its
\* failure the rollback on_shortcut(prev); every call into the plugin may
\* fail and then changes nothing there
RegisterEffect(acc) ==
    LET prev == hk_current IN
    \/ /\ prev # NoAccel
       /\ UNCHANGED <<plugin, hk_last_error>>
       /\ hk_current' = NoAccel
       /\ hk_ret' = HkRet("register", acc, "unregister error")
    \/ /\ plugin' = Unregistered \cup {acc}
       /\ hk_current' = acc
       /\ hk_last_error' = FALSE
       /\ hk_ret' = HkRet("register", acc, "Ok")
    \/ /\ prev # NoAccel
       /\ plugin' = Unregistered \cup {prev}
       /\ hk_current' = prev
       /\ UNCHANGED hk_last_error
       /\ hk_ret' = HkRet("register", acc, "register error")
    \/ /\ prev # NoAccel
       /\ plugin' = Unregistered
       /\ hk_current' = NoAccel
       /\ UNCHANGED hk_last_error
       /\ hk_ret' = HkRet("register", acc, "register error; rollback error")
    \/ /\ prev = NoAccel
       /\ UNCHANGED <<plugin, hk_last_error>>
       /\ hk_current' = NoAccel
       /\ hk_ret' = HkRet("register", acc, "register error")

\* what the hotkey calls leave alone
HotkeyFrame ==
    /\ Silent
    /\ UNCHANGED <<cmdVars, sessVars, workVars, sharedVars, cbVars, fsVars, ioVars>>
    /\ UNCHANGED <<purgeVars, purgeFnVars, hudVars>>

\* a call of hotkey::register outside set_hotkey (setup)
Register(acc) ==
    /\ sh_pc = "idle"
    /\ RegisterEffect(acc)
    /\ sh_ret' = "none"
    /\ UNCHANGED <<sh_pc, sh_args, sh_cands, settings, settings_saved, pttVars>>
    /\ HotkeyFrame

\* a call of hotkey::unregister
Unregister ==
    /\ sh_pc = "idle"
    /\ UnregisterEffect
    /\ sh_ret' = "none"
    /\ UNCHANGED <<sh_pc, sh_args, sh_cands, settings, settings_saved, pttVars>>
    /\ HotkeyFrame

\* hotkey::set_error
SetError ==
    /\ sh_pc = "idle"
    /\ hk_last_error' = TRUE
    /\ hk_ret' = NoHkRet
    /\ sh_ret' = "none"
    /\ UNCHANGED <<hk_current, plugin, sh_pc, sh_args, sh_cands, settings,
                   settings_saved, pttVars>>
    /\ HotkeyFrame

\* set_hotkey returns: nothing of the hotkey or the settings has changed
SetHotkeyReturns(r) ==
    /\ sh_ret' = r
    /\ sh_pc' = "idle"
    /\ sh_args' = NoArgs
    /\ sh_cands' = <<>>
    /\ hk_ret' = NoHkRet
    /\ UNCHANGED <<hk_current, hk_last_error, plugin, settings, settings_saved, pttVars>>
    /\ HotkeyFrame

\* set_hotkey up to the candidate loop: the match on kind, code.ok_or(..)?,
\* mods.ok_or(..)?, generate_hotkey_candidates_from_code
SetHotkeyCall(kind, code, mods) ==
    /\ sh_pc = "idle"
    /\ IF kind = "modifier"
       THEN SetHotkeyReturns("modifier-only hotkeys not supported yet")
       ELSE IF kind # "combo"
       THEN SetHotkeyReturns("unknown hotkey kind")
       ELSE IF code = 0
       THEN SetHotkeyReturns("missing code for combo")
       ELSE IF mods = 0
       THEN SetHotkeyReturns("missing mods for combo")
       ELSE /\ sh_pc' = "try"
            /\ sh_args' = [code |-> code, mods |-> mods, registered |-> NoAccel]
            /\ sh_cands' = generate_hotkey_candidates_from_code(code, mods)
            /\ sh_ret' = "none"
            /\ hk_ret' = NoHkRet
            /\ UNCHANGED <<hk_current, hk_last_error, plugin, settings,
                           settings_saved, pttVars>>
            /\ HotkeyFrame

\* one turn of `for cand in &candidates`: hotkey::register(&app, cand);
\* Ok => registered = Some(cand), break; Err => last_err = Some(err)
SetHotkeyTry ==
    /\ sh_pc = "try"
    /\ sh_cands # <<>>
    /\ RegisterEffect(Head(sh_cands))
    /\ IF hk_ret'.res = "Ok"
       THEN /\ sh_pc' = "save"
            /\ sh_args' = [sh_args EXCEPT !.registered = Head(sh_cands)]
            /\ sh_cands' = <<>>
       ELSE /\ sh_cands' = Tail(sh_cands)
            /\ UNCHANGED <<sh_pc, sh_args>>
    /\ sh_ret' = "none"
    /\ UNCHANGED <<settings, settings_saved, pttVars>>
    /\ HotkeyFrame

\* the settings with the hotkey set_hotkey has registered
NewSettings ==
    [accelerator |-> sh_args.registered, kind |-> "combo",
     code |-> sh_args.code, mods |-> sh_args.mods]

\* a set_hotkey that stores what it was asked for although no candidate
\* registered
SetHotkeyNoneSaves ==
    /\ sh_pc = "try"
    /\ sh_cands = <<>>
    /\ settings' = NewSettings
    /\ settings_saved' = NewSettings
    /\ sh_ret' = "failed to register hotkey"
    /\ sh_pc' = "idle"
    /\ sh_args' = NoArgs
    /\ sh_cands' = <<>>
    /\ hk_ret' = NoHkRet
    /\ UNCHANGED <<hk_current, hk_last_error, plugin, pttVars>>
    /\ HotkeyFrame

\* the loop ended with registered = None
SetHotkeyNone ==
    /\ sh_pc = "try"
    /\ sh_cands = <<>>
    /\ SetHotkeyReturns("failed to register hotkey")

\* a candidate registered: the settings take it and are saved
\* (settings_store.save, whose error is returned), and hotkey_ptt::stop
\* runs if push-to-talk is disabled
SetHotkeySave ==
    /\ sh_pc = "save"
    /\ settings' = NewSettings
    /\ \/ /\ settings_saved' = NewSettings
          /\ sh_ret' = "Ok"
          /\ \/ PttStopEffect /\ UNCHANGED ptt_ret
             \/ UNCHANGED pttVars
       \/ /\ UNCHANGED <<settings_saved, pttVars>>
          /\ sh_ret' = "failed to save settings"
    /\ sh_pc' = "idle"
    /\ sh_args' = NoArgs
    /\ sh_cands' = <<>>
    /\ hk_ret' = NoHkRet
    /\ UNCHANGED <<hk_current, hk_last_error, plugin>>
    /\ HotkeyFrame

HotkeyKinds == {"combo", "modifier", "other"}

HotkeyNext ==
    \/ \E acc \in Accels : Register(acc)
    \/ Unregister
    \/ SetError
    \/ \E kind \in HotkeyKinds, code \in HotkeyCodes, mods \in HotkeyMods :
          SetHotkeyCall(kind, code, mods)
    \/ SetHotkeyTry
    \/ SetHotkeyNone
    \/ SetHotkeySave

HotkeySpec == Init /\ [][HotkeyNext]_vars

\* the step is a return of hotkey::register
RegisterReturns == hk_ret'.op = "register"

\* on_shortcut(new) failed in the register of this step
FailedAtRegister ==
    RegisterReturns /\
    hk_ret'.res \in {"register error", "register error; rollback error"}

\* the previous accelerator is registered again after the step
RolledBack == hk_current # NoAccel /\ hk_current \in plugin'

\* C33: when the plugin refuses the new accelerator, register puts the
\* previous one back: if that succeeds current is the previous accelerator
\* and the original error is returned; with no previous accelerator or a
\* failed rollback current is None and an error is returned (one that
\* names the failed rollback, if there was one); on success current is
\* the new accelerator and last_error is cleared
C33_RollbackOnFailure ==
    [][/\ (FailedAtRegister /\ RolledBack) =>
              (hk_current' = hk_current /\ hk_ret'.res = "register error")
       /\ (FailedAtRegister /\ ~RolledBack) =>
              /\ hk_current' = NoAccel
              /\ plugin' = Unregistered
              /\ hk_current = NoAccel \/
                     hk_ret'.res = "register error; rollback error"
       /\ (RegisterReturns /\ hk_ret'.res = "Ok") =>
              (hk_current' = hk_ret'.acc /\ hk_ret'.acc \in plugin'
               /\ ~hk_last_error')]_vars

\* a register has failed at the plugin and put the previous accelerator back
C33_Witness ==
    /\ hk_ret.op = "register"
    /\ hk_ret.res = "register error"
    /\ hk_current \notin {NoAccel, hk_ret.acc}
    /\ hk_current \in plugin

\* C34 (as claimed): at most one shortcut is registered with the plugin,
\* and current is Some(a) exactly when a is that shortcut
C34_OneShortcut ==
    /\ Cardinality(plugin) <= 1
    /\ \A a \in Accels : hk_current = a <=> plugin = {a}

\* the settings or the settings file change in the step
SettingsChange == settings' # settings \/ settings_saved' # settings_saved

\* the errors of set_hotkey that come before or instead of a registration
NotRegisteredErrors ==
    {"failed to register hotkey", "modifier-only hotkeys not supported yet",
     "unknown hotkey kind", "missing code for combo", "missing mods for combo"}

\* C35: set_hotkey tries its candidates in order and stops at the first one
\* that registers; the settings change only when a candidate registered,
\* and then name it; a call that returns one of the errors for no
\* registered candidate, a modifier or unknown kind or a missing code or
\* mods leaves the settings and the settings file as they were
C35_SettingsOnlyOnSuccess ==
    [][/\ (sh_pc = "try" /\ RegisterReturns) =>
              /\ hk_ret'.acc = Head(sh_cands)
              /\ IF hk_ret'.res = "Ok"
                 THEN sh_pc' = "save" /\ sh_args'.registered = hk_ret'.acc
                 ELSE sh_pc' = "try" /\ sh_cands' = Tail(sh_cands)
       /\ SettingsChange =>
              /\ sh_pc = "save"
              /\ sh_args.registered = hk_current
              /\ hk_current \in plugin
              /\ settings'.accelerator = hk_current
              /\ settings_saved' \in {settings_saved, settings'}
       /\ sh_ret' \in NotRegisteredErrors =>
              UNCHANGED <<settings, settings_saved>>]_vars

\* set_hotkey has gone past a candidate that did not register, registered
\* the next one and stored it
C35_Witness ==
    /\ sh_ret = "Ok"
    /\ settings.accelerator.key = 2
    /\ settings_saved = settings

\* ------------------------------------------- purge_old_recordings, one call
\* times are whole days since 1970-01-01T00:00:00Z; now is after it
MaxNow == 2
MaxDays == 3
MaxEntries == 2

\* created_at: a string that parses to a time (RFC 3339 or the legacy
\* local format), also one before 1970, or a string that does not parse
CreatedAts ==
    [ok : {TRUE}, t : (-1)..MaxNow] \cup {[ok |-> FALSE, t |-> 0]}

\* an index entry with its file: there, missing, or there and not removable
PurgeEntries == [created_at : CreatedAts, file : {"present", "missing", "undeletable"}]

PurgeInputs ==
    [index : UNION {[1..n -> PurgeEntries] : n \in 0..MaxEntries},
     now : 1..MaxNow,
     days : 0..MaxDays]

\* the match on parse_from_rfc3339 and NaiveDateTime::parse_from_str: the
\* parsed time, or DateTime::from_timestamp(0, 0) for an invalid string
Created(e) == IF e.created_at.ok THEN e.created_at.t ELSE 0

\* let cutoff = chrono::Utc::now() - chrono::Duration::days(days as i64)
Cutoff(p) == p.now - p.days

\* if created < cutoff { delete } else { to_keep.push(entry.clone()) }
ToDelete(p, e) == Created(e) < Cutoff(p)
ToKeep(p) == SelectSeq(p.index, LAMBDA e : ~ToDelete(p, e))

\* deleted_count: one for every entry sent to the delete branch, whatever
\* became of its file
DeletedCount(p) == Len(SelectSeq(p.index, LAMBDA e : ToDelete(p, e)))

\* the files after the delete loop: wav_path.exists(), std::fs::remove_file
FilesAfter(p) ==
    [i \in 1..Len(p.index) |->
        IF ToDelete(p, p.index[i]) /\ p.index[i].file = "present"
        THEN "missing" ELSE p.index[i].file]

\* Storage::purge_old_recordings returns
PurgeOut(r, p, index, left) ==
    [ret |-> r, index |-> index, files |-> left,
     deleted_count |-> IF r = "Ok" THEN DeletedCount(p) ELSE 0,
     kept_count |-> IF r = "Ok" THEN Len(ToKeep(p)) ELSE 0]

\* Storage::purge_old_recordings(days) on an index: recordings_dir or
\* load_or_rebuild_index may fail before anything is done, save_index may
\* fail after the delete loop
PurgeFn ==
    /\ purge_out = <<>>
    /\ LET p == purge_in IN
       \/ purge_out' = <<PurgeOut("Err", p, p.index, [i \in 1..Len(p.index) |-> p.index[i].file])>>
       \/ purge_out' = <<PurgeOut("Err", p, p.index, FilesAfter(p))>>
       \/ purge_out' = <<PurgeOut("Ok", p, ToKeep(p), FilesAfter(p))>>
    /\ Silent
    /\ UNCHANGED <<cmdVars, sessVars, workVars, sharedVars, cbVars, fsVars, ioVars>>
    /\ UNCHANGED <<purgeVars, purge_in, hotkeyVars, pttVars, hudVars>>

PurgeFnInit == \E p \in PurgeInputs : InitAll(NoSample, p)

PurgeFnNext == PurgeFn

\* one index, a time and a number of days, and the purge of it
PurgeFnSpec == PurgeFnInit /\ [][PurgeFnNext]_vars

\* the entry's created_at parses and is not older than the cutoff
FreshEntry(p, e) == e.created_at.ok /\ e.created_at.t >= Cutoff(p)

\* C36 (as claimed): a purge that returns keeps in the index exactly the
\* entries whose created_at parses and is not older than the cutoff, in
\* their order, and deleted_count + kept_count is the number of entries
C36_KeepsExactlyFresh ==
    (purge_out # <<>> /\ purge_out[1].ret = "Ok") =>
        /\ purge_out[1].index = SelectSeq(purge_in.index, LAMBDA e : FreshEntry(purge_in, e))
        /\ purge_out[1].deleted_count + purge_out[1].kept_count = Len(purge_in.index)

\* ------------------------------------------------------ clear_all_recordings
\* the step is a return of the clear_all_recordings command
ClearReturns == lastRet'.cmd = "clear"

\* C37 (as claimed): clear_all_recordings always returns Ok and ends with
\* an empty persisted index and an empty in-memory list
C37_ClearAlwaysEmpties ==
    [][ClearReturns =>
          (lastRet'.res = "Ok" /\ index_file' = <<>> /\ recordings' = <<>>)]_vars

\* ----------------------------------------------------------------- the HUD
\* the follow thread has been spawned and has not left its loop
HudAlive(t) == hud_thread[t].pc \in {"active", "gen", "body", "sleep"}

\* the next follow thread to be spawned
NextThread == 1 + Cardinality({t \in HudThreads : hud_thread[t] # NoThread})

\* what the HUD calls and threads leave alone
HudFrame ==
    /\ Silent
    /\ UNCHANGED <<cmdVars, sessVars, workVars, sharedVars, cbVars, fsVars, ioVars>>
    /\ UNCHANGED <<purgeVars, purgeFnVars, hotkeyVars, pttVars>>

\* activate: ACTIVE.store(true, Ordering::Relaxed)
ActivateStore(c) ==
    /\ hud_pc[c] = "idle"
    /\ hud_active' = TRUE
    /\ hud_pc' = [hud_pc EXCEPT ![c] = "act_gen"]
    /\ UNCHANGED <<hud_gen, hud_thread, hud_local>>
    /\ HudFrame

\* a generation drawn with a load that loses the store
ActivateGenStale(c) ==
    /\ hud_pc[c] = "act_gen"
    /\ hud_local' = [hud_local EXCEPT ![c] = hud_gen + 1]
    /\ hud_pc' = [hud_pc EXCEPT ![c] = "act_spawn"]
    /\ UNCHANGED <<hud_active, hud_gen, hud_thread>>
    /\ HudFrame

\* activate: let gen = GEN.fetch_add(1, Ordering::Relaxed) + 1
ActivateGen(c) ==
    /\ hud_pc[c] = "act_gen"
    /\ hud_gen < MaxHudGen
    /\ hud_gen' = hud_gen + 1
    /\ hud_local' = [hud_local EXCEPT ![c] = hud_gen + 1]
    /\ hud_pc' = [hud_pc EXCEPT ![c] = "act_spawn"]
    /\ UNCHANGED <<hud_active, hud_thread>>
    /\ HudFrame

\* activate: get_webview_window(..).ok_or_else(..)? returns the error, or
\* the window is shown and the follow thread is spawned with gen
ActivateSpawn(c) ==
    /\ hud_pc[c] = "act_spawn"
    /\ \/ UNCHANGED hud_thread
       \/ /\ NextThread \in HudThreads
          /\ hud_thread' = [hud_thread EXCEPT
                ![NextThread] = [pc |-> "active", gen |-> hud_local[c]]]
    /\ hud_pc' = [hud_pc EXCEPT ![c] = "idle"]
    /\ hud_local' = [hud_local EXCEPT ![c] = 0]
    /\ UNCHANGED <<hud_active, hud_gen>>
    /\ HudFrame

\* deactivate: ACTIVE.store(false, Ordering::Relaxed)
DeactivateStore(c) ==
    /\ hud_pc[c] = "idle"
    /\ hud_active' = FALSE
    /\ hud_pc' = [hud_pc EXCEPT ![c] = "deact_gen"]
    /\ UNCHANGED <<hud_gen, hud_thread, hud_local>>
    /\ HudFrame

\* deactivate: GEN.fetch_add(1, Ordering::Relaxed), and the window is hidden
DeactivateGen(c) ==
    /\ hud_pc[c] = "deact_gen"
    /\ hud_gen < MaxHudGen
    /\ hud_gen' = hud_gen + 1
    /\ hud_pc' = [hud_pc EXCEPT ![c] = "idle"]
    /\ UNCHANGED <<hud_active, hud_thread, hud_local>>
    /\ HudFrame

\* the follow thread moves on: nothing else changes
HudThreadTo(t, pos) ==
    /\ hud_thread' = [hud_thread EXCEPT ![t].pc = pos]
    /\ UNCHANGED <<hud_active, hud_gen, hud_pc, hud_local>>
    /\ HudFrame

\* if !ACTIVE.load(Ordering::Relaxed) { break }
FollowCheckActive(t) ==
    /\ hud_thread[t].pc = "active"
    /\ HudThreadTo(t, IF hud_active THEN "gen" ELSE "exited")

\* if GEN.load(Ordering::Relaxed) != gen { break }
FollowCheckGen(t) ==
    /\ hud_thread[t].pc = "gen"
    /\ HudThreadTo(t, IF hud_gen = hud_thread[t].gen THEN "body" ELSE "exited")

\* the window is moved to the cursor
FollowBody(t) ==
    /\ hud_thread[t].pc = "body"
    /\ HudThreadTo(t, "sleep")

\* std::thread::sleep(Duration::from_millis(16)), back to the loop head
FollowSleep(t) ==
    /\ hud_thread[t].pc = "sleep"
    /\ HudThreadTo(t, "active")

FollowStep(t) ==
    \/ FollowCheckActive(t)
    \/ FollowCheckGen(t)
    \/ FollowBody(t)
    \/ FollowSleep(t)

HudCallerStep(c) ==
    \/ ActivateStore(c)
    \/ ActivateGen(c)
    \/ ActivateSpawn(c)
    \/ DeactivateStore(c)
    \/ DeactivateGen(c)

HudNext ==
    \/ \E c \in Callers : HudCallerStep(c)
    \/ \E t \in HudThreads : FollowStep(t)

HudSpec == Init /\ [][HudNext]_vars

\* the scheduler runs every follow thread again and again
FairHudSpec == HudSpec /\ \A t \in HudThreads : WF_vars(FollowStep(t))

\* the two loads at the head of the follow loop would let the thread go on
PassesChecks(t) == hud_active /\ hud_thread[t].gen = hud_gen

\* the step is the end of a deactivate call
DeactivateReturns == \E c \in Callers : hud_pc[c] = "deact_gen" /\ hud_pc'[c] = "idle"

\* C39: at most one follow thread can go on running, it is one of the
\* latest generation, and it can only while is_active() is true; when a
\* deactivate call ends no live thread has the current generation, and a
\* thread of another generation than the current one always exits
C39_OneFollowThread ==
    /\ [](Cardinality({t \in HudThreads : HudAlive(t) /\ PassesChecks(t)}) <= 1)
    /\ [][\A t \in HudThreads :
            /\ (hud_thread[t].pc = "gen" /\ hud_thread'[t].pc = "body") =>
                   hud_thread[t].gen = hud_gen
            /\ (hud_thread[t].pc = "active" /\ hud_thread'[t].pc = "gen") =>
                   hud_active
            /\ (DeactivateReturns /\ HudAlive(t)) => hud_thread[t].gen # hud_gen']_vars
    /\ \A t \in HudThreads :
          (HudAlive(t) /\ hud_thread[t].gen # hud_gen) ~> ~HudAlive(t)

\* a deactivate has ended while a follow thread was in its loop, and the
\* thread has exited; another thread of a later generation is following
C39_Witness ==
    \E t, u \in HudThreads :
        /\ hud_thread[t].pc = "exited"
        /\ HudAlive(u) /\ PassesChecks(u)
        /\ hud_thread[t].gen < hud_thread[u].gen

====
